---- MODULE Spec2Model ----
(***************************************************************************)
(* Model of the viral-calendar fetch / merge / cache core:                 *)
(*   - NewsAggregator.fetchViralContent and removeDuplicates               *)
(*   - RedditHistoricalImporter (importHistoricalData, processPosts,       *)
(*     filterNewsOnly, saveToStorage)                                      *)
(*   - the read paths of the useRedditData and useSupabaseData hooks       *)
(* Strings that the code inspects (titles, hashtags) are sequences of      *)
(* one-character strings so that toLowerCase, replace, substring and       *)
(* includes are computed and not assumed.                                  *)
(***************************************************************************)
EXTENDS Integers, Sequences, FiniteSets, TLC

\* ------------------------------------------------------------------ bounds

\* Most events one aggregation accumulates over all of its fetches.
MaxEvents == 3

\* Longest list handed to removeDuplicates in the pure-function check.
MaxLen == 3

\* Most subreddits and most timeframes in the options of one import.
MaxSubs == 2

MaxTf == 2

\* Most units (subreddit x timeframe pairs) in the options of one import.
MaxUnits == 4

\* Most events in one bucket handed to filterNewsOnly.
MaxBucket == 2

\* Most calls of the write path of the hook in one behaviour.
MaxWrites == 2

\* ------------------------------------------------------------- characters

UpperAlpha == <<"A","B","C","D","E","F","G","H","I","J","K","L","M","N","O","P","Q","R","S","T","U","V","W","X","Y","Z">>

LowerAlpha == <<"a","b","c","d","e","f","g","h","i","j","k","l","m","n","o","p","q","r","s","t","u","v","w","x","y","z">>

Digits == <<"0","1","2","3","4","5","6","7","8","9">>

Range(s) == {s[i] : i \in DOMAIN s}

UpperChars == Range(UpperAlpha)

\* The lowercase letter of each uppercase letter.
LowerOf == [u \in UpperChars |-> LowerAlpha[CHOOSE i \in DOMAIN UpperAlpha : UpperAlpha[i] = u]]

\* String.prototype.toLowerCase, one character.
LowerChar(c) == IF c \in UpperChars THEN LowerOf[c] ELSE c

toLowerCase(s) == [i \in DOMAIN s |-> LowerChar(s[i])]

LowerAlnumChars == Range(LowerAlpha) \cup Range(Digits)

\* The character class [a-z0-9] of the regular expression /[^a-z0-9]/g.
IsLowerAlnum(c) == c \in LowerAlnumChars

\* s.replace(/[^a-z0-9]/g, '')
StripNonAlnum(s) == SelectSeq(s, IsLowerAlnum)

\* s.substring(0, n)
Prefix(s, n) == SubSeq(s, 1, IF Len(s) < n THEN Len(s) ELSE n)

\* s.includes(sub)
Includes(s, sub) ==
  \E i \in 0..(Len(s) - Len(sub)) : SubSeq(s, i + 1, i + Len(sub)) = sub

\* The value of an optional field that is not set.
Undefined == <<"undefined">>

\* e.hashtag?.includes(sub): undefined (falsy) when the hashtag is not set.
HashtagIncludes(h, sub) == h # Undefined /\ Includes(h, sub)

\* --------------------------------------------------------- titles, hashtags

T_Breaking == <<"B","r","e","a","k","i","n","g"," ","N","e","w","s"," ","T","o","d","a","y">>

T_breakingBang == <<"b","r","e","a","k","i","n","g"," ","n","e","w","s"," ","t","o","d","a","y","!","!">>

T_Cat == <<"C","a","t"," ","9">>

\* Thirty-one characters: thirty times "a", then x or y.
T_LongX == [i \in 1..30 |-> "a"] \o <<"x">>

T_LongY == <<"!">> \o [i \in 1..30 |-> "A"] \o <<"y">>

H_news == <<"#","r","/","n","e","w","s">>

H_worldnews == <<"#","r","/","w","o","r","l","d","n","e","w","s">>

H_technology == <<"#","r","/","t","e","c","h","n","o","l","o","g","y">>

H_funny == <<"#","r","/","f","u","n","n","y">>

H_politics == <<"#","r","/","p","o","l","i","t","i","c","s">>

H_HackerNews == <<"#","H","a","c","k","e","r","N","e","w","s">>

K_news == <<"n","e","w","s">>

K_worldnews == <<"w","o","r","l","d","n","e","w","s">>

K_technology == <<"t","e","c","h","n","o","l","o","g","y">>

K_politics == <<"p","o","l","i","t","i","c","s">>

K_science == <<"s","c","i","e","n","c","e">>

\* ------------------------------------------------------------------ events

\* ViralEvent (summary is never inspected by the modelled code and is left out).
Ev(id, title, postCount, hashtag, type, rank) ==
  [id |-> id, title |-> title, postCount |-> postCount,
   hashtag |-> hashtag, type |-> type, trendingRank |-> rank]

EvA == Ev("a", T_Breaking, 500, H_news, "news", 1)

EvB == Ev("b", T_breakingBang, 300, Undefined, "news", 2)

EvC == Ev("hn-1", T_Cat, 900, H_HackerNews, "trend", 1)

EvD == Ev("d", T_LongX, 500, H_worldnews, "video", 1)

EvF == Ev("f", T_LongY, 500, H_technology, "trend", 2)

EvP == Ev("p", T_Cat, 700, H_politics, "meme", 1)

\* The events a source client may resolve with: EvA and EvB share one normalized
\* title, EvD and EvF another; EvA, EvD and EvF tie on postCount.
EventPool == {EvA, EvB, EvC, EvD, EvF}

\* All sequences over S of length at most n.
SeqsUpTo(S, n) == UNION {[1..k -> S] : k \in 0..n}

\* The calendar days of the model (YYYY-MM-DD strings in the code).
Dates == {"2025-01-01", "2025-01-02"}

\* "No value": undefined / null results and not-yet-computed results.
None == [none |-> TRUE]

VARIABLES
  now,          \* new Date().toISOString().split('T')[0]
  aggOpts,      \* AggregatorOptions of the running fetchViralContent call
  aggPc,        \* position of fetchViralContent: call, reddit, subs, newsapi, hn, done
  aggSub,       \* index of the news subreddit being fetched (1..3)
  allEvents,    \* the local allEvents of fetchViralContent
  evSource,     \* for each element of allEvents, the source client it came from
  aggResult,    \* results[today] once fetchViralContent has resolved
  ddIn,         \* the list handed to removeDuplicates
  ddOut,        \* what removeDuplicates returned for it, for it twice over and for its own result
  impOpts,      \* HistoricalImportOptions of the running importHistoricalData call
  impPc,        \* position of importHistoricalData: call, fetch, delay, rall, done
  impTf,        \* index of the timeframe of the outer loop
  impI,         \* index of the subreddit of the inner loop (from 1)
  totalProcessed, \* the local totalProcessed
  importedData, \* this.importedData, the accumulator
  impFetched,   \* the requests issued so far, in order
  impProgress,  \* the last ImportProgress handed to onProgress
  impLoopData,  \* the accumulator as it was when the main loop ended
  impResult,    \* the map importHistoricalData resolved with
  impWaited,    \* milliseconds the timer of the running delay(ms) has counted
  fltIn,        \* the map handed to filterNewsOnly
  fltOut,       \* what filterNewsOnly returned for it
  hook,         \* the mounted hook: "reddit" (useRedditData) or "supabase" (useSupabaseData)
  hkPc,         \* "mount" until the mount effect has run, then "ready"
  configured,   \* isSupabaseConfigured()
  apiSource,    \* apiStatus.source of useSupabaseData
  storage,      \* the localStorage item redditHistoricalData
  historicalData, \* the historicalData state of the hook
  liveData,     \* liveData of useRedditData, localData of useSupabaseData
  remoteEvents, \* the rows of the table viral_events
  remoteSummaries, \* the rows of the table daily_viral_summaries, by date
  lastRead,     \* the last getDayData / getDayDataSync call and what it returned
  isImporting,  \* the isImporting state of the hook
  hkWrite,      \* the running importHistoricalData / fetchLiveData call of useSupabaseData
  stItem,       \* the localStorage item as saveToStorage and clearStorage leave it
  stSaved,      \* the last saveToStorage call: the item before, the map, whether setItem threw
  cron,         \* the request the scheduled-job handler serves, its position and effects
  call,         \* a call of a source-client method: its inputs, its requests, how it settled
  runs,         \* two calls of the hook's importHistoricalData: position, importer, posts
  importers,    \* this.importedData of each RedditHistoricalImporter in use
  search,       \* the last searchEvents call of useRedditData and what it returned
  th            \* useTheme: theme, isSystemPreference, the media query, the effect

aggVars == <<aggOpts, aggPc, aggSub, allEvents, evSource, aggResult>>

ddVars == <<ddIn, ddOut>>

impVars == <<impOpts, impPc, impTf, impI, totalProcessed, importedData, impFetched,
             impProgress, impLoopData, impResult, impWaited>>

fltVars == <<fltIn, fltOut>>

hkVars == <<hook, hkPc, configured, apiSource, storage, historicalData, liveData,
            remoteEvents, remoteSummaries, lastRead>>

ihVars == <<isImporting>>

wrVars == <<hkWrite>>

stVars == <<stItem, stSaved>>

crVars == <<cron>>

clVars == <<call>>

ovVars == <<runs, importers>>

seVars == <<search>>

thVars == <<th>>

\* The remaining components, together.
restVars == <<crVars, clVars, ovVars, seVars, thVars>>

\* The remaining components, but the one named.
restNotCr == <<clVars, ovVars, seVars, thVars>>

restNotCl == <<crVars, ovVars, seVars, thVars>>

restNotOv == <<crVars, clVars, seVars, thVars>>

restNotSe == <<crVars, clVars, ovVars, thVars>>

restNotTh == <<crVars, clVars, ovVars, seVars>>

vars == <<now, aggVars, ddVars, impVars, fltVars, hkVars, ihVars, wrVars, stVars, restVars>>

\* The state of a component that is not running.
AggIdle ==
  /\ aggOpts = None
  /\ aggPc = "idle"
  /\ aggSub = 1
  /\ allEvents = <<>>
  /\ evSource = <<>>
  /\ aggResult = None

DdIdle == ddIn = <<>> /\ ddOut = None

\* A Record<string, DayData> with no keys.
EmptyMap == [d \in {} |-> None]

ImpIdle ==
  /\ impOpts = None
  /\ impPc = "idle"
  /\ impTf = 1
  /\ impI = 1
  /\ totalProcessed = 0
  /\ importedData = EmptyMap
  /\ impFetched = <<>>
  /\ impProgress = None
  /\ impLoopData = None
  /\ impResult = None
  /\ impWaited = 0

FltIdle == fltIn = EmptyMap /\ fltOut = None

HkIdle ==
  /\ hook = "none"
  /\ hkPc = "idle"
  /\ configured = FALSE
  /\ apiSource = "local"
  /\ storage = None
  /\ historicalData = EmptyMap
  /\ liveData = EmptyMap
  /\ remoteEvents = {}
  /\ remoteSummaries = EmptyMap
  /\ lastRead = None

IhIdle == isImporting = FALSE

WrIdle == hkWrite = None

StIdle == stItem = None /\ stSaved = None

CrIdle ==
  cron = None

ClIdle ==
  call = None

OvIdle ==
  runs = None /\ importers = None

SeIdle ==
  search = None

ThIdle ==
  th = None

RestIdle == CrIdle /\ ClIdle /\ OvIdle /\ SeIdle /\ ThIdle

\* Everything but the aggregator, and so on for each component.
notAgg == <<ddVars, impVars, fltVars, hkVars, ihVars, wrVars, stVars, restVars>>

notDd == <<aggVars, impVars, fltVars, hkVars, ihVars, wrVars, stVars, restVars>>

notImp == <<aggVars, ddVars, fltVars, hkVars, ihVars, wrVars, stVars, restVars>>

notFlt == <<aggVars, ddVars, impVars, hkVars, ihVars, wrVars, stVars, restVars>>

notHk == <<aggVars, ddVars, impVars, fltVars, ihVars, wrVars, stVars, restVars>>

notSt == <<aggVars, ddVars, impVars, fltVars, hkVars, ihVars, wrVars, restVars>>

notHkWr == <<aggVars, ddVars, impVars, fltVars, ihVars, stVars, restVars>>

notImpHk == <<aggVars, ddVars, fltVars, wrVars, stVars, restVars>>

\* --------------------------------------------- NewsAggregator (part_008)

\* Length of the normalized-title prefix that removeDuplicates compares.
KeyPrefixLen == 30

\* The key of removeDuplicates: lowercase, strip non-alphanumerics, truncate.
TitleKey(title) == Prefix(StripNonAlnum(toLowerCase(title)), KeyPrefixLen)

RECURSIVE RemoveDupRec(_, _, _, _)
\* The loop of removeDuplicates from index i on, with its seen set and unique list.
RemoveDupRec(events, i, seen, unique) ==
  IF i > Len(events) THEN unique
  ELSE LET key == TitleKey(events[i].title)
       IN IF key \notin seen
          THEN RemoveDupRec(events, i + 1, seen \cup {key}, Append(unique, events[i]))
          ELSE RemoveDupRec(events, i + 1, seen, unique)

RECURSIVE RemoveDupKeepLastRec(_, _)
RemoveDupKeepLastRec(events, i) ==
  IF i > Len(events) THEN <<>>
  ELSE IF \E j \in (i + 1)..Len(events) : TitleKey(events[j].title) = TitleKey(events[i].title)
       THEN RemoveDupKeepLastRec(events, i + 1)
       ELSE <<events[i]>> \o RemoveDupKeepLastRec(events, i + 1)

\* removeDuplicates with the last occurrence of a key surviving instead of the first.
removeDuplicates_KeepLast(events) == RemoveDupKeepLastRec(events, 1)

RECURSIVE RemoveDupAdjacentRec(_, _)
RemoveDupAdjacentRec(events, i) ==
  IF i > Len(events) THEN <<>>
  ELSE IF i > 1 /\ TitleKey(events[i - 1].title) = TitleKey(events[i].title)
       THEN RemoveDupAdjacentRec(events, i + 1)
       ELSE <<events[i]>> \o RemoveDupAdjacentRec(events, i + 1)

\* removeDuplicates remembering only the key of the previous event.
removeDuplicates_Adjacent(events) == RemoveDupAdjacentRec(events, 1)

removeDuplicates(events) == RemoveDupRec(events, 1, {}, <<>>)

\* InsertDesc with e going in front of the elements it ties with.
InsertDesc_TiesFirst(sorted, e) ==
  LET Before(x) == x.postCount > e.postCount
      NotBefore(x) == x.postCount <= e.postCount
  IN SelectSeq(sorted, Before) \o <<e>> \o SelectSeq(sorted, NotBefore)

\* One insertion of a stable sort with comparator (a, b) => b.postCount - a.postCount:
\* e goes behind every element that does not compare after it.
InsertDesc(sorted, e) ==
  LET NotAfter(x) == x.postCount >= e.postCount
      After(x) == x.postCount < e.postCount
  IN SelectSeq(sorted, NotAfter) \o <<e>> \o SelectSeq(sorted, After)

RECURSIVE SortRec(_, _, _)
SortRec(events, i, acc) ==
  IF i > Len(events) THEN acc ELSE SortRec(events, i + 1, InsertDesc(acc, events[i]))

\* Array.prototype.sort((a, b) => b.postCount - a.postCount), stable since ES2019.
SortByPostCountDesc(events) == SortRec(events, 1, <<>>)

\* The newsOnly predicate of fetchViralContent.
AggIsNews(e) ==
  \/ e.type = "news"
  \/ HashtagIncludes(e.hashtag, K_news)
  \/ HashtagIncludes(e.hashtag, K_worldnews)
  \/ HashtagIncludes(e.hashtag, K_technology)

\* allEvents.filter(e => e.postCount >= minScore), then the newsOnly filter.
AggFilter(events, opts) ==
  LET ScoreOk(e) == e.postCount >= opts.minScore
      byScore == SelectSeq(events, ScoreOk)
  IN IF opts.newsOnly THEN SelectSeq(byScore, AggIsNews) ELSE byScore

\* uniqueEvents.sort(...).slice(0, maxResults)
AggSorted(events, opts) ==
  Prefix(SortByPostCountDesc(removeDuplicates(AggFilter(events, opts))), opts.maxResults)

\* sortedEvents.map((e, i) => ({ ...e, trendingRank: i + 1 }))
Rerank(sorted) == [i \in DOMAIN sorted |-> [sorted[i] EXCEPT !.trendingRank = i]]

\* sortedEvents[0]?.hashtag
TopHashtagOf(sorted) == IF Len(sorted) > 0 THEN sorted[1].hashtag ELSE Undefined

\* AggBucket with topHashtag read from the unique list before it is sorted.
AggBucket_TopBeforeSort(events, opts, today) ==
  LET sortedEvents == AggSorted(events, opts)
  IN [date |-> today,
      events |-> Rerank(sortedEvents),
      hasViralContent |-> Len(sortedEvents) > 0,
      topHashtag |-> TopHashtagOf(removeDuplicates(AggFilter(events, opts)))]

\* results[today] of fetchViralContent.
AggBucket(events, opts, today) ==
  LET sortedEvents == AggSorted(events, opts)
  IN [date |-> today,
      events |-> Rerank(sortedEvents),
      hasViralContent |-> Len(sortedEvents) > 0,
      topHashtag |-> TopHashtagOf(sortedEvents)]

WantsReddit(o) == "reddit" \in o.sources \/ "all" \in o.sources

WantsNewsApi(o) == ("newsapi" \in o.sources \/ "all" \in o.sources) /\ o.newsApiConfigured

WantsHackerNews(o) == "hackernews" \in o.sources \/ "all" \in o.sources

\* The next await of fetchViralContent at or after a stage; "finish" when none is left.
StageFrom(stage, o) ==
  IF stage = "reddit" /\ WantsReddit(o) THEN "reddit"
  ELSE IF stage \in {"reddit", "newsapi"} /\ WantsNewsApi(o) THEN "newsapi"
  ELSE IF WantsHackerNews(o) THEN "hn"
  ELSE "finish"

\* ['worldnews', 'news', 'technology']
AggSubreddits == <<"worldnews", "news", "technology">>

\* What a fetch may resolve with, given what the aggregation already holds.
FetchLists == SeqsUpTo(EventPool, MaxEvents - Len(allEvents))

\* An HTTP exchange: the upstream answered with posts, or the request failed.
Responses ==
  {[ok |-> FALSE, events |-> <<>>]} \cup {[ok |-> TRUE, events |-> evs] : evs \in FetchLists}

\* RedditApiService.getSubredditPosts: an error is logged and [] is returned.
getSubredditPosts(resp) == IF resp.ok THEN resp.events ELSE <<>>

\* The source selections of the model, each with whether a NewsAPI key is set.
AggSourceChoices ==
  {[sources |-> {"reddit", "hackernews"}, configured |-> FALSE],
   [sources |-> {"all"}, configured |-> TRUE],
   [sources |-> {"newsapi", "hackernews"}, configured |-> TRUE],
   [sources |-> {"newsapi"}, configured |-> FALSE]}

AggOptions ==
  {[sources |-> c.sources, newsApiConfigured |-> c.configured,
    newsOnly |-> n, minScore |-> m, maxResults |-> r] :
     c \in AggSourceChoices, n \in BOOLEAN, m \in {100, 500}, r \in {2, 100}}

AggInit ==
  /\ now = "2025-01-01"
  /\ aggOpts \in AggOptions
  /\ aggPc = "call"
  /\ aggSub = 1
  /\ allEvents = <<>>
  /\ evSource = <<>>
  /\ aggResult = None

\* allEvents.push(...evs) for a list that a client of source src resolved with.
AggPush(evs, src) ==
  /\ allEvents' = allEvents \o evs
  /\ evSource' = evSource \o [i \in DOMAIN evs |-> src]

\* Run on from a stage: the next await, or the synchronous tail that builds the bucket.
AggSettle(stage) ==
  IF stage = "finish"
  THEN aggPc' = "done" /\ aggResult' = AggBucket(allEvents', aggOpts, now)
  ELSE aggPc' = stage /\ aggResult' = aggResult

\* fetchViralContent(options) up to its first await.
AggCall ==
  /\ aggPc = "call"
  /\ AggPush(<<>>, "none")
  /\ AggSettle(StageFrom("reddit", aggOpts))
  /\ UNCHANGED <<now, aggOpts, aggSub, notAgg>>

\* redditApi.getPopularPosts resolved.
AggPopularOk ==
  /\ aggPc = "reddit"
  /\ \E evs \in FetchLists : AggPush(evs, "reddit")
  /\ aggPc' = "subs"
  /\ aggSub' = 1
  /\ UNCHANGED <<now, aggOpts, aggResult, notAgg>>

\* redditApi.getPopularPosts rejected: the outer catch skips the subreddit loop.
AggPopularFail ==
  /\ aggPc = "reddit"
  /\ AggPush(<<>>, "reddit")
  /\ AggSettle(StageFrom("newsapi", aggOpts))
  /\ UNCHANGED <<now, aggOpts, aggSub, notAgg>>

\* One iteration of the loop over the news subreddits.
AggSubredditPosts ==
  /\ aggPc = "subs"
  /\ \E resp \in Responses : AggPush(getSubredditPosts(resp), "reddit")
  /\ IF aggSub < Len(AggSubreddits)
     THEN aggSub' = aggSub + 1 /\ UNCHANGED <<aggPc, aggResult>>
     ELSE aggSub' = aggSub /\ AggSettle(StageFrom("newsapi", aggOpts))
  /\ UNCHANGED <<now, aggOpts, notAgg>>

\* newsApi.getTopHeadlines resolved.
AggHeadlinesOk ==
  /\ aggPc = "newsapi"
  /\ \E evs \in FetchLists : AggPush(evs, "newsapi")
  /\ AggSettle(StageFrom("hn", aggOpts))
  /\ UNCHANGED <<now, aggOpts, aggSub, notAgg>>

\* newsApi.getTopHeadlines rejected.
AggHeadlinesFail ==
  /\ aggPc = "newsapi"
  /\ AggPush(<<>>, "newsapi")
  /\ AggSettle(StageFrom("hn", aggOpts))
  /\ UNCHANGED <<now, aggOpts, aggSub, notAgg>>

\* hackerNewsApi.getTopStories resolved.
AggTopStoriesOk ==
  /\ aggPc = "hn"
  /\ \E evs \in FetchLists : AggPush(evs, "hackernews")
  /\ AggSettle("finish")
  /\ UNCHANGED <<now, aggOpts, aggSub, notAgg>>

\* hackerNewsApi.getTopStories rejected.
AggTopStoriesFail ==
  /\ aggPc = "hn"
  /\ AggPush(<<>>, "hackernews")
  /\ AggSettle("finish")
  /\ UNCHANGED <<now, aggOpts, aggSub, notAgg>>

AggNext ==
  \/ AggCall
  \/ AggPopularOk
  \/ AggPopularFail
  \/ AggSubredditPosts
  \/ AggHeadlinesOk
  \/ AggHeadlinesFail
  \/ AggTopStoriesOk
  \/ AggTopStoriesFail

InitAgg == AggInit /\ DdIdle /\ ImpIdle /\ FltIdle /\ HkIdle /\ IhIdle /\ WrIdle /\ StIdle /\ RestIdle

SpecAgg == InitAgg /\ [][AggNext]_vars

\* ------------------------------------- removeDuplicates as a pure function

DdInit ==
  /\ now = "2025-01-01"
  /\ ddIn \in SeqsUpTo(EventPool, MaxLen)
  /\ ddOut = None

\* removeDuplicates applied to L, to L ++ L and to its own result for L.
DdApply ==
  /\ ddOut = None
  /\ ddOut' = [once |-> removeDuplicates(ddIn),
               doubled |-> removeDuplicates(ddIn \o ddIn),
               again |-> removeDuplicates(removeDuplicates(ddIn))]
  /\ UNCHANGED <<now, ddIn, notDd>>

DdNext == DdApply

InitDedup == DdInit /\ AggIdle /\ ImpIdle /\ FltIdle /\ HkIdle /\ IhIdle /\ WrIdle /\ StIdle /\ RestIdle

SpecDedup == InitDedup /\ [][DdNext]_vars

\* ------------------------------------ RedditHistoricalImporter (part_008)

\* The ten entries of NEWS_SUBREDDITS, the default of options.subreddits.
NEWS_SUBREDDITS ==
  <<"worldnews", "news", "politics", "science", "technology",
    "nottheonion", "UpliftingNews", "TrueReddit", "newsbot", "inthenews">>

\* The { date, events: [], hasViralContent: false, topHashtag: undefined } of processPosts.
NewBucket(d) ==
  [date |-> d, events |-> <<>>, hasViralContent |-> FALSE, topHashtag |-> Undefined]

\* !topHashtag: undefined and the empty string are falsy.
Falsy(h) == h = Undefined \/ h = <<>>

\* The body of the forEach without the exists test: every post is pushed.
ProcessPost_NoExists(data, post, dateStr) ==
  LET cur == IF dateStr \in DOMAIN data THEN data[dateStr] ELSE NewBucket(dateStr)
      upd == [date |-> cur.date,
              events |-> Append(cur.events, post),
              hasViralContent |-> TRUE,
              topHashtag |-> IF Falsy(cur.topHashtag) \/ post.trendingRank = 1
                             THEN post.hashtag ELSE cur.topHashtag]
  IN [x \in DOMAIN data \cup {dateStr} |-> IF x = dateStr THEN upd ELSE data[x]]

\* The body of the forEach of processPosts for one post, dated dateStr.
ProcessPost(data, post, dateStr) ==
  LET cur == IF dateStr \in DOMAIN data THEN data[dateStr] ELSE NewBucket(dateStr)
      exists == \E k \in DOMAIN cur.events : cur.events[k].id = post.id
      upd == IF exists THEN cur
             ELSE [date |-> cur.date,
                   events |-> Append(cur.events, post),
                   hasViralContent |-> TRUE,
                   topHashtag |-> IF Falsy(cur.topHashtag) \/ post.trendingRank = 1
                                  THEN post.hashtag ELSE cur.topHashtag]
  IN [x \in DOMAIN data \cup {dateStr} |-> IF x = dateStr THEN upd ELSE data[x]]

RECURSIVE ProcessPostsRec(_, _, _, _)
ProcessPostsRec(data, posts, i, dateStr) ==
  IF i > Len(posts) THEN data
  ELSE ProcessPostsRec(ProcessPost(data, posts[i], dateStr), posts, i + 1, dateStr)

\* RedditHistoricalImporter.processPosts, run on the day dateStr.
processPosts(data, posts, dateStr) == ProcessPostsRec(data, posts, 1, dateStr)

\* posts.filter(post => post.postCount >= minScore)
FilterByScore(posts, minScore) ==
  LET Ok(post) == post.postCount >= minScore IN SelectSeq(posts, Ok)

\* The post lists Reddit answers with; transformPostsToEvents ranks each by position.
RedditLists ==
  {<<EvA, EvB>>, <<EvC, EvA>>, <<EvP, EvD>>, <<EvA, EvB, EvC, EvD, EvF>>}

ImpResponses ==
  {[ok |-> FALSE, events |-> <<>>]} \cup {[ok |-> TRUE, events |-> Rerank(l)] : l \in RedditLists}

ImpOptions ==
  {o \in [subreddits : {SubSeq(NEWS_SUBREDDITS, 1, n) : n \in 0..MaxSubs},
          timeframes : SeqsUpTo({"day", "week"}, MaxTf),
          minScore : {300, 600},
          maxPosts : {1, 4, 500}] :
     Len(o.subreddits) * Len(o.timeframes) <= MaxUnits}

\* The milliseconds of await this.delay(2000).
DelayMs == 2000

\* delay(ms) without the wait: it resolves at once.
delay_Immediate(waited, ms) == TRUE

\* RedditHistoricalImporter.delay: setTimeout resolves the promise once ms
\* milliseconds have gone by.
delay(waited, ms) == waited >= ms

\* timeframes.indexOf(timeframe)
IndexOf(seq, x) == (CHOOSE k \in DOMAIN seq : seq[k] = x /\ \A m \in 1..(k - 1) : seq[m] # x) - 1

RECURSIVE OuterTop(_, _, _)
\* The top of the timeframe loop at timeframe number tf: the next request to await.
OuterTop(o, tf, total) ==
  IF tf > Len(o.timeframes) \/ total >= o.maxPosts
  THEN [pc |-> "rall", tf |-> tf, i |-> 1]
  ELSE IF Len(o.subreddits) = 0
       THEN OuterTop(o, tf + 1, total)
       ELSE [pc |-> "fetch", tf |-> tf, i |-> 1]

\* AfterDelay without the break that follows the delay.
AfterDelay_NoBreak(o, tf, i, total) ==
  IF i < Len(o.subreddits) THEN [pc |-> "fetch", tf |-> tf, i |-> i + 1]
  ELSE OuterTop(o, tf + 1, total)

\* After the delay of unit (tf, i): the break, the next subreddit or the next timeframe.
AfterDelay(o, tf, i, total) ==
  IF total >= o.maxPosts THEN OuterTop(o, tf + 1, total)
  ELSE IF i < Len(o.subreddits) THEN [pc |-> "fetch", tf |-> tf, i |-> i + 1]
  ELSE OuterTop(o, tf + 1, total)

\* The ImportProgress emitted before the request at a position.
ProgressAt(o, pos, data) ==
  LET units == Len(o.subreddits) * Len(o.timeframes)
  IN IF pos.pc = "fetch"
     THEN [total |-> units,
           current |-> pos.i + IndexOf(o.timeframes, o.timeframes[pos.tf]) * Len(o.subreddits),
           subreddit |-> <<o.subreddits[pos.i], o.timeframes[pos.tf]>>,
           postsFound |-> Cardinality(DOMAIN data)]
     ELSE [total |-> units + 1,
           current |-> units + 1,
           subreddit |-> <<"r/all", "all">>,
           postsFound |-> Cardinality(DOMAIN data)]

\* The request issued at a position, with the value of totalProcessed at that time
\* and the milliseconds waited since the request before it settled.
RequestAt(o, pos, total, waited) ==
  IF pos.pc = "fetch"
  THEN [kind |-> "subreddit", subreddit |-> o.subreddits[pos.i],
        timeframe |-> o.timeframes[pos.tf], processed |-> total,
        outcome |-> "pending", posts |-> <<>>, waited |-> waited]
  ELSE [kind |-> "popular", subreddit |-> "all", timeframe |-> "all", processed |-> total,
        outcome |-> "pending", posts |-> <<>>, waited |-> waited]

\* The request log once the pending request has settled with the posts that were merged.
Settled(log, resp, merged) ==
  [log EXCEPT ![Len(log)].outcome = IF resp.ok THEN "ok" ELSE "failed",
              ![Len(log)].posts = merged]

\* Arrive at a position: onProgress is called and the request goes out.
ImpEnter(pos, data, total) ==
  /\ impPc' = pos.pc
  /\ impTf' = pos.tf
  /\ impI' = pos.i
  /\ impProgress' = ProgressAt(impOpts, pos, data)
  /\ impFetched' = Append(impFetched, RequestAt(impOpts, pos, total, impWaited))
  /\ impWaited' = 0
  /\ impLoopData' = IF pos.pc = "rall" THEN data ELSE impLoopData

ImpInit ==
  /\ now = "2025-01-01"
  /\ impOpts \in ImpOptions
  /\ impPc = "call"
  /\ impTf = 1
  /\ impI = 1
  /\ totalProcessed = 0
  /\ importedData = EmptyMap
  /\ impFetched = <<>>
  /\ impProgress = None
  /\ impLoopData = None
  /\ impResult = None
  /\ impWaited = 0

\* importHistoricalData(options) up to its first await.
ImpCall ==
  /\ impPc = "call"
  /\ importedData' = EmptyMap
  /\ totalProcessed' = 0
  /\ ImpEnter(OuterTop(impOpts, 1, 0), EmptyMap, 0)
  /\ UNCHANGED <<now, impOpts, impResult, notImp>>

\* ImpFetchDone with a failed request ending the import at once.
ImpFetchDone_AbortOnFail ==
  /\ impPc = "fetch"
  /\ \E resp \in ImpResponses :
       LET filteredPosts == FilterByScore(getSubredditPosts(resp), impOpts.minScore)
       IN /\ importedData' = processPosts(importedData, filteredPosts, now)
          /\ totalProcessed' = totalProcessed + Len(filteredPosts)
          /\ impFetched' = Settled(impFetched, resp, filteredPosts)
          /\ impPc' = IF resp.ok THEN "delay" ELSE "done"
          /\ impResult' = IF resp.ok THEN impResult ELSE importedData
          /\ impLoopData' = IF resp.ok THEN impLoopData ELSE importedData
  /\ UNCHANGED <<now, impOpts, impTf, impI, impProgress, impWaited, notImp>>

\* redditApi.getSubredditPosts resolved (with [] when the request failed); the
\* posts are filtered, merged and counted, and the delay starts.
ImpFetchDone ==
  /\ impPc = "fetch"
  /\ \E resp \in ImpResponses :
       LET filteredPosts == FilterByScore(getSubredditPosts(resp), impOpts.minScore)
       IN /\ importedData' = processPosts(importedData, filteredPosts, now)
          /\ totalProcessed' = totalProcessed + Len(filteredPosts)
          /\ impFetched' = Settled(impFetched, resp, filteredPosts)
  /\ impPc' = "delay"
  /\ UNCHANGED <<now, impOpts, impTf, impI, impProgress, impLoopData, impResult, impWaited,
                 notImp>>

\* The timer of delay(2000) counts on.
ImpDelayTick ==
  /\ impPc = "delay"
  /\ impWaited < DelayMs
  /\ impWaited' = impWaited + DelayMs \div 2
  /\ UNCHANGED <<now, impOpts, impPc, impTf, impI, totalProcessed, importedData, impFetched,
                 impProgress, impLoopData, impResult, notImp>>

\* The delay elapsed: the maxPosts check, then the next unit or the r/all fetch.
ImpDelayDone ==
  /\ impPc = "delay"
  /\ delay(impWaited, DelayMs)
  /\ ImpEnter(AfterDelay(impOpts, impTf, impI, totalProcessed), importedData, totalProcessed)
  /\ UNCHANGED <<now, impOpts, totalProcessed, importedData, impResult, notImp>>

\* redditApi.getPopularPosts resolved: posts of at least twice minScore are merged.
ImpAllOk ==
  /\ impPc = "rall"
  /\ \E l \in RedditLists :
       LET filteredPosts == FilterByScore(Rerank(l), impOpts.minScore * 2)
       IN /\ importedData' = processPosts(importedData, filteredPosts, now)
          /\ impFetched' = Settled(impFetched, [ok |-> TRUE], filteredPosts)
  /\ impResult' = importedData'
  /\ impPc' = "done"
  /\ UNCHANGED <<now, impOpts, impTf, impI, totalProcessed, impProgress, impLoopData,
                 impWaited, notImp>>

\* redditApi.getPopularPosts rejected: the catch logs and the accumulator is returned.
ImpAllFail ==
  /\ impPc = "rall"
  /\ impFetched' = Settled(impFetched, [ok |-> FALSE], <<>>)
  /\ impResult' = importedData
  /\ impPc' = "done"
  /\ UNCHANGED <<now, impOpts, impTf, impI, totalProcessed, importedData,
                 impProgress, impLoopData, impWaited, notImp>>

\* Midnight passes while a request of the import is in flight.
ImpMidnight ==
  /\ impPc \in {"fetch", "rall"}
  /\ now = "2025-01-01"
  /\ now' = "2025-01-02"
  /\ UNCHANGED <<impVars, notImp>>

ImpNext ==
  \/ ImpCall
  \/ ImpFetchDone
  \/ ImpDelayTick
  \/ ImpDelayDone
  \/ ImpAllOk
  \/ ImpAllFail
  \/ ImpMidnight

InitImport == ImpInit /\ AggIdle /\ DdIdle /\ FltIdle /\ HkIdle /\ IhIdle /\ WrIdle /\ StIdle /\ RestIdle

SpecImport == InitImport /\ [][ImpNext]_vars

\* ----------------------------------- filterNewsOnly (part_008, 239-260)

\* The predicate of the filter of filterNewsOnly; hashtag?.includes is
\* case-sensitive and undefined when there is no hashtag.
ImpIsNews(e) ==
  \/ e.type = "news"
  \/ /\ e.hashtag # Undefined
     /\ \/ Includes(e.hashtag, K_worldnews)
        \/ Includes(e.hashtag, K_news)
        \/ Includes(e.hashtag, K_politics)
        \/ Includes(e.hashtag, K_science)

\* Insert e into a list sorted by ascending trendingRank, after its equals.
InsertAsc(sorted, e) ==
  LET before == SelectSeq(sorted, LAMBDA x : x.trendingRank <= e.trendingRank)
      after == SelectSeq(sorted, LAMBDA x : x.trendingRank > e.trendingRank)
  IN before \o <<e>> \o after

RECURSIVE SortAscRec(_, _, _)
SortAscRec(events, i, acc) ==
  IF i > Len(events) THEN acc ELSE SortAscRec(events, i + 1, InsertAsc(acc, events[i]))

\* events.sort((a, b) => a.trendingRank - b.trendingRank): stable, ascending.
SortByRankAsc(events) == SortAscRec(events, 1, <<>>)

\* The bucket filterNewsOnly stores for a date: { ...dayData, events: newsEvents.sort(...) }.
NewsBucket(dayData) ==
  [dayData EXCEPT !.events = SortByRankAsc(SelectSeq(dayData.events, ImpIsNews))]

\* filterNewsOnly without the test newsEvents.length > 0.
filterNewsOnly_KeepEmpty(data) == [d \in DOMAIN data |-> NewsBucket(data[d])]

\* RedditHistoricalImporter.filterNewsOnly
filterNewsOnly(data) ==
  LET kept == {d \in DOMAIN data : Len(SelectSeq(data[d].events, ImpIsNews)) > 0}
  IN [d \in kept |-> NewsBucket(data[d])]

\* The events a bucket handed to filterNewsOnly is made of.
FilterPool == {EvB, EvC, EvD, EvP}

\* A DayData holding events evs, as createDayData of the mock data builds it.
Bucket(d, evs) ==
  [date |-> d, events |-> evs, hasViralContent |-> evs # <<>>,
   topHashtag |-> IF evs = <<>> THEN Undefined ELSE evs[1].hashtag]

FilterInputs ==
  UNION {{[d \in ds |-> Bucket(d, f[d])] : f \in [ds -> SeqsUpTo(FilterPool, MaxBucket)]} :
           ds \in SUBSET Dates}

FltInit ==
  /\ now = "2025-01-01"
  /\ fltIn \in FilterInputs
  /\ fltOut = None

FltApply ==
  /\ fltOut = None
  /\ fltOut' = filterNewsOnly(fltIn)
  /\ UNCHANGED <<now, fltIn, notFlt>>

FltNext == FltApply

InitFilter == FltInit /\ AggIdle /\ DdIdle /\ ImpIdle /\ HkIdle /\ IhIdle /\ WrIdle /\ StIdle /\ RestIdle

SpecFilter == InitFilter /\ [][FltNext]_vars

\* ------------------- the hooks useRedditData and useSupabaseData, and
\* ------------------- the Supabase client library (part_007), mock data (part_003)

\* null, as dailySummariesApi.getByDate returns it; None stands for undefined.
Null == [null |-> TRUE]

\* map[dateStr]: undefined when the key is missing.
Lookup(map, d) == IF d \in DOMAIN map THEN map[d] ELSE None

\* { ...a, ...b }
Merge(a, b) == [d \in DOMAIN a \cup DOMAIN b |-> IF d \in DOMAIN b THEN b[d] ELSE a[d]]

\* The Date objects a caller passes: an instant has one calendar day in UTC and
\* one in the caller's time zone.
ReadDates ==
  {[utc |-> "2025-01-01", local |-> "2025-01-01"],
   [utc |-> "2025-01-02", local |-> "2025-01-01"],
   [utc |-> "2025-01-02", local |-> "2025-01-02"]}

\* date.toISOString().split('T')[0]: the UTC day.
IsoDay(date) == date.utc

\* The static table viralData of the mock data: built for the sample dates only.
MockEvent == Ev("mock-1", T_Cat, 12000, H_funny, "meme", 1)

viralData == [d \in {"2025-01-01"} |-> Bucket(d, <<MockEvent>>)]

\* getDayData of the mock data, imported by the hooks as getMockDayData.
getMockDayData(dateStr) == Lookup(viralData, dateStr)

\* The localStorage item: missing, not parseable as JSON, or a stored map.
NoItem == [item |-> "missing"]

Corrupt == [item |-> "corrupt"]

\* RedditHistoricalImporter.loadFromStorage: {} when missing or when JSON.parse throws.
loadFromStorage(st) == IF st \in {NoItem, Corrupt} THEN EmptyMap ELSE st

\* A bucket with the events of old and, after them, those of new whose id old lacks.
UnionBucket(old, new) ==
  LET Fresh(e) == ~\E k \in DOMAIN old.events : old.events[k].id = e.id
  IN [new EXCEPT !.events = old.events \o SelectSeq(new.events, Fresh)]

\* saveToStorage merging event by event inside a date both maps hold.
saveToStorage_UnionEvents(st, data, setItemOk) ==
  IF st = Corrupt \/ ~setItemOk THEN st
  ELSE LET existingData == loadFromStorage(st)
       IN [d \in DOMAIN existingData \cup DOMAIN data |->
             IF d \notin DOMAIN data THEN existingData[d]
             ELSE IF d \notin DOMAIN existingData THEN data[d]
             ELSE UnionBucket(existingData[d], data[d])]

\* RedditHistoricalImporter.saveToStorage: a shallow merge over the stored map;
\* nothing is written when JSON.parse or setItem throws.
saveToStorage(st, data, setItemOk) ==
  IF st = Corrupt \/ ~setItemOk THEN st ELSE Merge(loadFromStorage(st), data)

\* A row of viral_events as the hooks build it for bulkInsert.
Row(e, sourceType, dateStr) ==
  [source_id |-> e.id, source_type |-> sourceType, title |-> e.title,
   post_count |-> e.postCount, hashtag |-> e.hashtag, content_type |-> e.type,
   trending_rank |-> e.trendingRank, viral_score |-> e.postCount,
   published_date |-> dateStr]

\* upsert(events, { onConflict: 'source_id,source_type' })
Upsert(rows, new) ==
  {r \in rows : ~\E n \in new : n.source_id = r.source_id /\ n.source_type = r.source_type}
    \cup new

\* The rows of a date, and the orders .order('viral_score', { ascending: false })
\* can return them in (rows of equal score come in any order).
RowsOf(rows, d) == {r \in rows : r.published_date = d}

RowsByScore(rows, d) ==
  LET S == RowsOf(rows, d)
      n == Cardinality(S)
  IN {s \in [1..n -> S] :
        /\ \A i, j \in 1..n : i < j => s[i] # s[j] /\ s[i].viral_score >= s[j].viral_score}

\* The hashtags update_daily_summary can pick: those of the most rows of the date.
TopHashtags(rows, d) ==
  LET S == RowsOf(rows, d)
      N(h) == Cardinality({r \in S : r.hashtag = h})
  IN {h \in {r.hashtag : r \in S} : \A g \in {r.hashtag : r \in S} : N(h) >= N(g)}

\* A row of daily_viral_summaries (the columns the client reads).
Summary(d, viral, top) == [date |-> d, has_viral_content |-> viral, top_hashtag |-> top]

\* The database: the two tables.
Db(events, summaries) == [events |-> events, summaries |-> summaries]

\* viralEventsApi.bulkInsert that succeeds, with the trigger after_viral_event_insert:
\* the summary of the date of every row that was inserted (not updated) is
\* recomputed.  The result is the set of databases this can leave, one for each
\* choice of top hashtag the recomputation can make.
bulkInsert(db, new) ==
  LET inserted == {n \in new : ~\E r \in db.events :
                                   n.source_id = r.source_id /\ n.source_type = r.source_type}
      events == Upsert(db.events, new)
      ds == {n.published_date : n \in inserted}
      picks == {f \in [ds -> {r.hashtag : r \in events}] :
                  \A d \in ds : f[d] \in TopHashtags(events, d)}
  IN {Db(events, [d \in DOMAIN db.summaries \cup ds |->
                    IF d \in ds THEN Summary(d, TRUE, f[d]) ELSE db.summaries[d]]) :
        f \in picks}

\* The keys of a map in the order Object.entries yields them: dates are inserted
\* as the days go by.
DateOrder == <<"2025-01-01", "2025-01-02">>

KeysInOrder(data) == SelectSeq(DateOrder, LAMBDA d : d \in DOMAIN data)

\* source_type of fetchLiveData: by the prefix of the event id.
SourceType(id) ==
  IF id \in {"hn-1"} THEN "hackernews"
  ELSE IF id \in {"newsapi-1"} THEN "newsapi" ELSE "reddit"

RECURSIVE SyncImport(_, _, _, _)
\* The sync loop of importHistoricalData of useSupabaseData: one bulkInsert per
\* date; the first k succeed, the next one throws and ends the loop.  From a set
\* of databases to the set of databases the loop can leave.
SyncImport(dbs, data, dates, k) ==
  IF k = 0 \/ dates = <<>> THEN dbs
  ELSE LET d == Head(dates)
           rows == {Row(e, "reddit", d) : e \in Range(data[d].events)}
       IN SyncImport(UNION {bulkInsert(db, rows) : db \in dbs}, data, Tail(dates), k - 1)

\* dailySummariesApi.getAll on rows it could read: stubs of the viral days.
getAll(summaries) ==
  LET viral == {d \in DOMAIN summaries : summaries[d].has_viral_content}
  IN [d \in viral |-> [date |-> summaries[d].date, events |-> <<>>,
                       hasViralContent |-> TRUE, topHashtag |-> summaries[d].top_hashtag]]

\* dailySummariesApi.getByDate: null when the summary query errs or finds no
\* row; throws when the events query errs; else the bucket, events being the rows
\* of the date in the order the database returned them.
getByDate(summaries, rowsInOrder, dateStr, outcome) ==
  IF outcome = "summaryError" \/ dateStr \notin DOMAIN summaries
  THEN [threw |-> FALSE, value |-> Null]
  ELSE IF outcome = "eventsError"
       THEN [threw |-> TRUE, value |-> None]
       ELSE [threw |-> FALSE,
             value |-> [date |-> summaries[dateStr].date, events |-> rowsInOrder,
                        hasViralContent |-> summaries[dateStr].has_viral_content,
                        topHashtag |-> summaries[dateStr].top_hashtag]]

\* A value that an if (...) or an || takes as true: an object, not null or undefined.
Truthy(v) == v # None /\ v # Null

\* getDayDataSync with the mock data consulted first.
getDayDataSync_MockFirst(hist, local, dateStr) ==
  IF Truthy(getMockDayData(dateStr)) THEN getMockDayData(dateStr)
  ELSE IF Truthy(Lookup(hist, dateStr)) THEN Lookup(hist, dateStr)
  ELSE Lookup(local, dateStr)

\* getDayDataSync of useSupabaseData:
\* historicalData[dateStr] || localData[dateStr] || getMockDayData(dateStr)
getDayDataSync(hist, local, dateStr) ==
  IF Truthy(Lookup(hist, dateStr)) THEN Lookup(hist, dateStr)
  ELSE IF Truthy(Lookup(local, dateStr)) THEN Lookup(local, dateStr)
  ELSE getMockDayData(dateStr)

\* getDayData of useRedditData: liveData, then historicalData, then the mock data.
useRedditData_getDayData(live, hist, dateStr) ==
  IF Truthy(Lookup(live, dateStr)) THEN Lookup(live, dateStr)
  ELSE IF Truthy(Lookup(hist, dateStr)) THEN Lookup(hist, dateStr)
  ELSE getMockDayData(dateStr)

\* getDayData of useSupabaseData with no catch around the remote read.
useSupabaseData_getDayData_NoCatch(src, remoteRead, hist, local, dateStr) ==
  IF src = "supabase" /\ remoteRead.threw
  THEN [rejected |-> TRUE, value |-> None]
  ELSE IF src = "supabase" /\ Truthy(remoteRead.value)
       THEN [rejected |-> FALSE, value |-> remoteRead.value]
       ELSE [rejected |-> FALSE,
             value |-> IF Truthy(Lookup(hist, dateStr)) THEN Lookup(hist, dateStr)
                       ELSE IF Truthy(Lookup(local, dateStr)) THEN Lookup(local, dateStr)
                       ELSE getMockDayData(dateStr)]

\* getDayData of useSupabaseData: the remote read when apiStatus.source is
\* 'supabase' (a throw is caught and logged), then historicalData, localData, mock.
useSupabaseData_getDayData(src, remoteRead, hist, local, dateStr) ==
  IF src = "supabase" /\ ~remoteRead.threw /\ Truthy(remoteRead.value)
  THEN [rejected |-> FALSE, value |-> remoteRead.value]
  ELSE [rejected |-> FALSE,
        value |-> IF Truthy(Lookup(hist, dateStr)) THEN Lookup(hist, dateStr)
                  ELSE IF Truthy(Lookup(local, dateStr)) THEN Lookup(local, dateStr)
                  ELSE getMockDayData(dateStr)]

\* Posts of an import of the hooks (minScore 1000) and events of a live fetch.
EvH1 == Ev("h1", T_Breaking, 5000, H_worldnews, "news", 1)

EvH2 == Ev("h2", T_Cat, 2000, H_funny, "meme", 2)

\* Maps importHistoricalData of the importer can resolve with.
ImporterResults ==
  {EmptyMap,
   processPosts(EmptyMap, Rerank(<<EvH1, EvH2>>), "2025-01-01"),
   processPosts(processPosts(EmptyMap, Rerank(<<EvH1>>), "2025-01-01"),
                Rerank(<<EvH2>>), "2025-01-02")}

\* What localStorage holds when the hook mounts.
StorageInits ==
  {NoItem, Corrupt,
   processPosts(EmptyMap, Rerank(<<EvH1, EvH2>>), "2025-01-01"),
   processPosts(processPosts(EmptyMap, Rerank(<<EvH1>>), "2025-01-01"),
                Rerank(<<EvH2>>), "2025-01-02")}

\* What the database holds when the hook mounts.
RemoteInits ==
  {Db({}, EmptyMap),
   Db({Row(EvH1, "reddit", "2025-01-01")},
      [d \in {"2025-01-01"} |-> Summary(d, TRUE, H_worldnews)]),
   Db({Row(EvC, "hackernews", "2025-01-02")},
      [d \in Dates |-> IF d = "2025-01-01" THEN Summary(d, FALSE, Undefined)
                                           ELSE Summary(d, TRUE, H_HackerNews)])}

\* The event lists a live fetch gathers.
LiveLists == {<<>>, <<EvA, EvC>>}

\* The record of a read: what was asked, what each layer held, what came back.
\* A read changes nothing else, so a behaviour is followed up to its first read.
ReadRecord(fn, dateStr, asked, outcome, remoteHeld, result) ==
  [fn |-> fn, dateStr |-> dateStr, src |-> apiSource, asked |-> asked,
   outcome |-> outcome, remoteHeld |-> remoteHeld,
   hist |-> Lookup(historicalData, dateStr), live |-> Lookup(liveData, dateStr),
   rejected |-> result.rejected, value |-> result.value]

HkInit ==
  /\ now = "2025-01-01"
  /\ hook \in {"reddit", "supabase"}
  /\ hkPc = "mount"
  /\ configured \in BOOLEAN
  /\ hook = "reddit" => ~configured
  /\ apiSource = IF configured THEN "supabase" ELSE "local"
  /\ storage \in StorageInits
  /\ historicalData = EmptyMap
  /\ liveData = EmptyMap
  /\ \E db \in RemoteInits :
       /\ ~configured => db.events = {}
       /\ remoteEvents = db.events
       /\ remoteSummaries = db.summaries
  /\ lastRead = None

\* The mount effect of useRedditData: the stored map, when it has keys.
MountReddit ==
  /\ lastRead = None
  /\ hook = "reddit"
  /\ hkPc = "mount"
  /\ historicalData' = IF DOMAIN loadFromStorage(storage) # {}
                       THEN loadFromStorage(storage) ELSE historicalData
  /\ hkPc' = "ready"
  /\ UNCHANGED <<now, hook, configured, apiSource, storage, liveData, remoteEvents,
                 remoteSummaries, lastRead, notHk>>

\* loadInitialData of useSupabaseData, getAll having resolved.
LoadInitialOk ==
  /\ lastRead = None
  /\ hook = "supabase"
  /\ hkPc = "mount"
  /\ configured
  /\ historicalData' = getAll(remoteSummaries)
  /\ apiSource' = "supabase"
  /\ hkPc' = "ready"
  /\ UNCHANGED <<now, hook, configured, storage, liveData, remoteEvents,
                 remoteSummaries, lastRead, notHk>>

\* loadInitialData of useSupabaseData, getAll having thrown: the stored map, and
\* the source becomes 'local'.
LoadInitialFail ==
  /\ lastRead = None
  /\ hook = "supabase"
  /\ hkPc = "mount"
  /\ configured
  /\ historicalData' = loadFromStorage(storage)
  /\ apiSource' = "local"
  /\ hkPc' = "ready"
  /\ UNCHANGED <<now, hook, configured, storage, liveData, remoteEvents,
                 remoteSummaries, lastRead, notHk>>

\* loadInitialData of useSupabaseData when Supabase is not configured.
LoadInitialLocal ==
  /\ lastRead = None
  /\ hook = "supabase"
  /\ hkPc = "mount"
  /\ ~configured
  /\ historicalData' = loadFromStorage(storage)
  /\ apiSource' = "local"
  /\ hkPc' = "ready"
  /\ UNCHANGED <<now, hook, configured, storage, liveData, remoteEvents,
                 remoteSummaries, lastRead, notHk>>

\* ---------------------------------------------------- aggregator properties

\* The same event up to the rank that fetchViralContent reassigns.
SameEvent(e, f) == [e EXCEPT !.trendingRank = 0] = [f EXCEPT !.trendingRank = 0]

\* The place at which an event of the bucket arrived in allEvents (0 if it never did).
Arrival(e) ==
  IF \E k \in DOMAIN allEvents : SameEvent(allEvents[k], e)
  THEN CHOOSE k \in DOMAIN allEvents :
         /\ SameEvent(allEvents[k], e)
         /\ \A m \in 1..(k - 1) : ~SameEvent(allEvents[m], e)
  ELSE 0

InOutput(e) == \E k \in DOMAIN aggResult.events : SameEvent(aggResult.events[k], e)

\* C1: in the bucket fetchViralContent resolves with, trendingRank is 1..N in list
\* order, postCount is descending, and events that tie on postCount keep the order
\* in which they arrived in the concatenation of the source results.
Thm_C1 ==
  aggPc = "done" =>
    LET ev == aggResult.events
    IN /\ \A i \in DOMAIN ev : ev[i].trendingRank = i /\ Arrival(ev[i]) > 0
       /\ \A i, j \in DOMAIN ev : i < j => ev[i].postCount >= ev[j].postCount
       /\ \A i, j \in DOMAIN ev :
            i < j /\ ev[i].postCount = ev[j].postCount => Arrival(ev[i]) < Arrival(ev[j])

\* Three events came out, the last two tie, and the input was not already in order.
Wit_C1 ==
  /\ aggPc = "done"
  /\ Len(aggResult.events) = 3
  /\ aggResult.events[2].postCount = aggResult.events[3].postCount
  /\ allEvents[1].postCount < allEvents[2].postCount
  /\ allEvents[1].trendingRank # 2

\* C2: topHashtag of the resolved bucket is the hashtag of its rank-1 event, and is
\* not set when the bucket has no events.
Thm_C2 ==
  aggPc = "done" =>
    LET ev == aggResult.events
    IN IF Len(ev) = 0
       THEN aggResult.topHashtag = Undefined
       ELSE /\ \E i \in DOMAIN ev : ev[i].trendingRank = 1
            /\ \A i \in DOMAIN ev :
                 ev[i].trendingRank = 1 => aggResult.topHashtag = ev[i].hashtag

\* The rank-1 event carries a hashtag, differs in it from the runner-up, and did
\* not arrive first.
Wit_C2 ==
  /\ aggPc = "done"
  /\ Len(aggResult.events) >= 2
  /\ aggResult.topHashtag # Undefined
  /\ aggResult.events[1].hashtag # aggResult.events[2].hashtag
  /\ ~SameEvent(allEvents[1], aggResult.events[1])

\* Two events of allEvents that the claim C3 is about: different ids, different
\* sources, the same normalized title, i before j.
DupPair(i, j) ==
  /\ i < j
  /\ allEvents[i].id # allEvents[j].id
  /\ evSource[i] # evSource[j]
  /\ TitleKey(allEvents[i].title) = TitleKey(allEvents[j].title)

\* C3 as stated: of two events from different sources with the same normalized
\* title, the bucket holds exactly the one that comes first in concatenation order.
\* Read in the claim's favour: the earlier event is the first of that title to
\* arrive at all, and maxResults is too large to cut the list.
Orig_C3 ==
  aggPc = "done" /\ aggOpts.maxResults >= Len(allEvents) =>
    \A i, j \in DOMAIN allEvents :
      /\ DupPair(i, j)
      /\ \A m \in 1..(i - 1) : TitleKey(allEvents[m].title) # TitleKey(allEvents[i].title)
      => InOutput(allEvents[i]) /\ ~InOutput(allEvents[j])

\* The events that pass the minScore filter and, with newsOnly, the news filter.
PassesFilters(e) ==
  /\ e.postCount >= aggOpts.minScore
  /\ aggOpts.newsOnly => AggIsNews(e)

\* No event before place i passes the filters with the normalized title of allEvents[i].
FirstOfKey(i) ==
  \A m \in 1..(i - 1) :
    PassesFilters(allEvents[m]) => TitleKey(allEvents[m].title) # TitleKey(allEvents[i].title)

KeysPassing == {TitleKey(allEvents[i].title) : i \in {k \in DOMAIN allEvents : PassesFilters(allEvents[k])}}

\* C3 (amended): of the events that share a normalized title, the bucket holds at
\* most one: the first, in concatenation order, of those that pass the minScore
\* filter and, with newsOnly, the news filter, even if a later one has the higher
\* postCount; it is in the bucket whenever maxResults does not cut the list. Events
\* a ("Breaking News Today", 500) then b ("breaking news today!!", 300) with
\* minScore 100 give the single event a with rank 1.
Thm_C3 ==
  aggPc = "done" =>
    /\ \A k \in DOMAIN aggResult.events :
         \E i \in DOMAIN allEvents :
           /\ PassesFilters(allEvents[i])
           /\ FirstOfKey(i)
           /\ SameEvent(allEvents[i], aggResult.events[k])
    /\ \A k, m \in DOMAIN aggResult.events :
         k # m => TitleKey(aggResult.events[k].title) # TitleKey(aggResult.events[m].title)
    /\ \A i \in DOMAIN allEvents :
         /\ PassesFilters(allEvents[i])
         /\ FirstOfKey(i)
         /\ Cardinality(KeysPassing) <= aggOpts.maxResults
         => InOutput(allEvents[i])
    /\ allEvents = <<EvA, EvB>> /\ aggOpts.minScore = 100 =>
         aggResult.events = <<[EvA EXCEPT !.trendingRank = 1]>>

\* A later duplicate from another source with the higher postCount passed the
\* filters and the earlier event is the one in the bucket.
Wit_C3 ==
  /\ aggPc = "done"
  /\ \E i, j \in DOMAIN allEvents :
       /\ DupPair(i, j)
       /\ PassesFilters(allEvents[i]) /\ PassesFilters(allEvents[j])
       /\ allEvents[j].postCount > allEvents[i].postCount
       /\ InOutput(allEvents[i])
       /\ ~InOutput(allEvents[j])

\* ------------------------------------------------ removeDuplicates properties

\* C4: removeDuplicates(L ++ L) and removeDuplicates(removeDuplicates(L)) are the
\* list removeDuplicates(L), for every event list L.
Thm_C4 ==
  ddOut # None => ddOut.doubled = ddOut.once /\ ddOut.again = ddOut.once

\* A list with a duplicate that is not next to its first occurrence was reduced.
Wit_C4 ==
  /\ ddOut # None
  /\ Len(ddIn) = 3
  /\ Len(ddOut.once) = 2
  /\ TitleKey(ddIn[1].title) = TitleKey(ddIn[3].title)
  /\ ddIn[1] # ddIn[3]

\* ------------------------------------------------------ importer properties

\* The events of a date-keyed map, over all of its buckets.
EventsOf(data) == UNION {Range(data[d].events) : d \in DOMAIN data}

\* No bucket of small is missing from big or holds an event differently placed:
\* big extends every bucket of small at its end.
ExtendsBuckets(big, small) ==
  /\ DOMAIN small \subseteq DOMAIN big
  /\ \A d \in DOMAIN small :
       /\ Len(small[d].events) <= Len(big[d].events)
       /\ SubSeq(big[d].events, 1, Len(small[d].events)) = small[d].events

\* Once totalProcessed has reached maxPosts no subreddit request goes out.
NoFetchPastCap ==
  \A k \in DOMAIN impFetched :
    impFetched[k].kind = "subreddit" => impFetched[k].processed < impOpts.maxPosts

\* The scenario of C9 has run: subreddits [x, y], timeframes [day], maxPosts 1, and
\* the fetch of x gave five posts that all passed minScore.
ScenarioC9 ==
  /\ impPc = "done"
  /\ Len(impOpts.subreddits) = 2
  /\ impOpts.timeframes = <<"day">>
  /\ impOpts.maxPosts = 1
  /\ impFetched[1].kind = "subreddit"
  /\ impFetched[1].subreddit = impOpts.subreddits[1]
  /\ impFetched[2].processed = 5

\* The second subreddit of the options was never requested.
SecondNeverFetched ==
  \A k \in DOMAIN impFetched : impFetched[k].subreddit # impOpts.subreddits[2]

\* C9 as stated: no subreddit fetch once maxPosts filtered posts are processed, and
\* in the scenario y is never fetched and the returned map holds exactly the five
\* posts of x.
Orig_C9 ==
  /\ impPc # "idle" => NoFetchPastCap
  /\ ScenarioC9 =>
       /\ SecondNeverFetched
       /\ Cardinality(EventsOf(impResult)) = 5
       /\ impResult = impLoopData

\* C9 (amended): no subreddit fetch is issued once maxPosts filtered posts are
\* processed; in the scenario y is never fetched and the accumulator holds exactly
\* the five posts of x when the loop ends, and the returned map holds those five
\* followed by the posts of the final r/all fetch that score at least 2 x minScore
\* and are not in their bucket yet.
Thm_C9 ==
  /\ impPc # "idle" => NoFetchPastCap
  /\ ScenarioC9 =>
       /\ SecondNeverFetched
       /\ Cardinality(EventsOf(impLoopData)) = 5
       /\ ExtendsBuckets(impResult, impLoopData) \/ impLoopData = EmptyMap
       /\ \A e \in EventsOf(impResult) \ EventsOf(impLoopData) :
            e.postCount >= 2 * impOpts.minScore

\* The scenario ran and the r/all fetch added a post to the five of x.
Wit_C9 == ScenarioC9 /\ Cardinality(EventsOf(impResult)) > 5

\* importHistoricalData of either hook once the importer has resolved: the
\* optional news filter, saveToStorage, the merge into historicalData, and in
\* useSupabaseData with source 'supabase' the sync loop.
HookImport ==
  /\ lastRead = None
  /\ hook \in {"reddit", "supabase"}
  /\ \E data \in ImporterResults, newsOnly \in BOOLEAN, setItemOk \in BOOLEAN :
       LET finalData == IF newsOnly THEN filterNewsOnly(data) ELSE data
       IN /\ storage' = saveToStorage(storage, finalData, setItemOk)
          /\ historicalData' = Merge(historicalData, finalData)
          /\ IF hook = "supabase" /\ apiSource = "supabase"
             THEN \E k \in 0..Cardinality(DOMAIN finalData) :
                    \E db \in SyncImport({Db(remoteEvents, remoteSummaries)}, finalData,
                                         KeysInOrder(finalData), k) :
                      /\ remoteEvents' = db.events
                      /\ remoteSummaries' = db.summaries
             ELSE UNCHANGED <<remoteEvents, remoteSummaries>>
  /\ UNCHANGED <<now, hook, hkPc, configured, apiSource, liveData, lastRead, notHk>>

\* fetchLiveDataForDate of useRedditData once getViralContentForDate has
\* resolved: a non-empty list, sorted by trendingRank, is cached in liveData.
FetchLiveReddit ==
  /\ lastRead = None
  /\ hook = "reddit"
  /\ \E date \in ReadDates, events \in LiveLists :
       LET sortedEvents == SortByRankAsc(Rerank(events))
           dayData == [date |-> IsoDay(date), events |-> sortedEvents,
                       hasViralContent |-> Len(events) > 0,
                       topHashtag |-> sortedEvents[1].hashtag]
       IN liveData' = IF events = <<>> THEN liveData
                      ELSE Merge(liveData, [d \in {IsoDay(date)} |-> dayData])
  /\ UNCHANGED <<now, hook, hkPc, configured, apiSource, storage, historicalData,
                 remoteEvents, remoteSummaries, lastRead, notHk>>

\* fetchLiveData of useSupabaseData once the three sources have answered: a
\* non-empty list, sorted by postCount and re-ranked, is put in localData and,
\* with source 'supabase', sent to bulkInsert, which may throw.
FetchLiveSupabase ==
  /\ lastRead = None
  /\ hook = "supabase"
  /\ \E date \in ReadDates, events \in LiveLists :
       LET dateStr == IsoDay(date)
           sortedEvents == SortByPostCountDesc(events)
           dayData == [date |-> dateStr, events |-> Rerank(sortedEvents),
                       hasViralContent |-> Len(events) > 0,
                       topHashtag |-> sortedEvents[1].hashtag]
           rows == {Row(e, SourceType(e.id), dateStr) : e \in Range(dayData.events)}
       IN IF events = <<>>
          THEN UNCHANGED <<liveData, remoteEvents, remoteSummaries>>
          ELSE /\ liveData' = Merge(liveData, [d \in {dateStr} |-> dayData])
               /\ IF apiSource = "supabase"
                  THEN \E ok \in BOOLEAN :
                         \E db \in IF ok THEN bulkInsert(Db(remoteEvents, remoteSummaries), rows)
                                    ELSE {Db(remoteEvents, remoteSummaries)} :
                           /\ remoteEvents' = db.events
                           /\ remoteSummaries' = db.summaries
                  ELSE UNCHANGED <<remoteEvents, remoteSummaries>>
  /\ UNCHANGED <<now, hook, hkPc, configured, apiSource, storage, historicalData,
                 lastRead, notHk>>

\* clearHistoricalData of either hook: clearStorage and setHistoricalData({}).
HookClear ==
  /\ lastRead = None
  /\ hook \in {"reddit", "supabase"}
  /\ storage' = NoItem
  /\ historicalData' = EmptyMap
  /\ UNCHANGED <<now, hook, hkPc, configured, apiSource, liveData, remoteEvents,
                 remoteSummaries, lastRead, notHk>>

\* A call of getDayData of useRedditData.
ReadReddit ==
  /\ lastRead = None
  /\ hook = "reddit"
  /\ \E date \in ReadDates :
       lastRead' = ReadRecord("getDayData", IsoDay(date), FALSE, "none", None,
                              [rejected |-> FALSE,
                               value |-> useRedditData_getDayData(liveData, historicalData,
                                                                  IsoDay(date))])
  /\ UNCHANGED <<now, hook, hkPc, configured, apiSource, storage, historicalData, liveData,
                 remoteEvents, remoteSummaries, notHk>>

\* A call of getDayData of useSupabaseData, from the call to the settling of its
\* promise; outcome is how the database answers at that time, asked or not.
ReadSupabase ==
  /\ lastRead = None
  /\ hook = "supabase"
  /\ \E date \in ReadDates, outcome \in {"ok", "summaryError", "eventsError"} :
       \E rowsInOrder \in RowsByScore(remoteEvents, IsoDay(date)) :
         LET dateStr == IsoDay(date)
             remoteRead == getByDate(remoteSummaries, rowsInOrder, dateStr, outcome)
             held == getByDate(remoteSummaries, rowsInOrder, dateStr, "ok").value
         IN lastRead' = ReadRecord("getDayData", dateStr, apiSource = "supabase", outcome,
                                   IF configured THEN held ELSE Null,
                                   useSupabaseData_getDayData(apiSource, remoteRead,
                                                              historicalData, liveData, dateStr))
  /\ UNCHANGED <<now, hook, hkPc, configured, apiSource, storage, historicalData, liveData,
                 remoteEvents, remoteSummaries, notHk>>

\* A call of getDayDataSync of useSupabaseData.
ReadSync ==
  /\ lastRead = None
  /\ hook = "supabase"
  /\ \E date \in ReadDates :
       lastRead' = ReadRecord("getDayDataSync", IsoDay(date), FALSE, "none", None,
                              [rejected |-> FALSE,
                               value |-> getDayDataSync(historicalData, liveData, IsoDay(date))])
  /\ UNCHANGED <<now, hook, hkPc, configured, apiSource, storage, historicalData, liveData,
                 remoteEvents, remoteSummaries, notHk>>

HkNext ==
  \/ MountReddit
  \/ LoadInitialOk
  \/ LoadInitialFail
  \/ LoadInitialLocal
  \/ HookImport
  \/ FetchLiveReddit
  \/ FetchLiveSupabase
  \/ HookClear
  \/ ReadReddit
  \/ ReadSupabase
  \/ ReadSync

InitHooks == HkInit /\ AggIdle /\ DdIdle /\ ImpIdle /\ FltIdle /\ IhIdle /\ WrIdle /\ StIdle /\ RestIdle

SpecHooks == InitHooks /\ [][HkNext]_vars

\* ------------- importHistoricalData of useRedditData around the importer's run

\* The options the hook hands to the importer: subreddits, timeframes and
\* maxPosts of the caller (a cap the first post reaches, or one never reached),
\* and its one fixed minScore, a threshold that part of the model's posts pass.
LiveOptions == {o \in ImpOptions : o.minScore = 600 /\ o.maxPosts \in {1, 500}}

\* importHistoricalData of the hook is called: setIsImporting(true), and the
\* importer is started with the options.
IhStart ==
  /\ impPc = "idle"
  /\ ~isImporting
  /\ isImporting' = TRUE
  /\ impOpts' \in LiveOptions
  /\ impPc' = "call"
  /\ UNCHANGED <<now, impTf, impI, totalProcessed, importedData, impFetched, impProgress,
                 impLoopData, impResult, impWaited, hkVars, notImpHk>>

\* IhFinish without the finally: the flag is left set.
IhFinish_NoFinally ==
  /\ impPc = "done"
  /\ isImporting
  /\ \E newsOnly \in BOOLEAN, setItemOk \in BOOLEAN :
       LET finalData == IF newsOnly THEN filterNewsOnly(impResult) ELSE impResult
       IN /\ storage' = saveToStorage(storage, finalData, setItemOk)
          /\ historicalData' = Merge(historicalData, finalData)
  /\ UNCHANGED <<now, impVars, hook, hkPc, configured, apiSource, liveData, remoteEvents,
                 remoteSummaries, lastRead, isImporting, notImpHk>>

\* The importer has resolved: the optional news filter, saveToStorage, the merge
\* into historicalData, and in the finally setIsImporting(false).
IhFinish ==
  /\ impPc = "done"
  /\ isImporting
  /\ \E newsOnly \in BOOLEAN, setItemOk \in BOOLEAN :
       LET finalData == IF newsOnly THEN filterNewsOnly(impResult) ELSE impResult
       IN /\ storage' = saveToStorage(storage, finalData, setItemOk)
          /\ historicalData' = Merge(historicalData, finalData)
  /\ isImporting' = FALSE
  /\ UNCHANGED <<now, impVars, hook, hkPc, configured, apiSource, liveData, remoteEvents,
                 remoteSummaries, lastRead, notImpHk>>

\* The steps the program takes by itself once the import is started: each awaited
\* request settles (the client's timeout) and each timer fires.
LiveProgress ==
  \/ ImpCall
  \/ ImpFetchDone
  \/ ImpDelayTick
  \/ ImpDelayDone
  \/ ImpAllOk
  \/ ImpAllFail
  \/ IhFinish

LiveNext ==
  \/ IhStart
  \/ ImpCall
  \/ ImpFetchDone
  \/ ImpDelayTick
  \/ ImpDelayDone
  \/ ImpAllOk
  \/ ImpAllFail
  \/ ImpMidnight
  \/ IhFinish

\* The hook mounted over an empty cache, no import started.
InitLive ==
  /\ now = "2025-01-01"
  /\ ImpIdle
  /\ hook = "reddit"
  /\ hkPc = "ready"
  /\ configured = FALSE
  /\ apiSource = "local"
  /\ storage = NoItem
  /\ historicalData = EmptyMap
  /\ liveData = EmptyMap
  /\ remoteEvents = {}
  /\ remoteSummaries = EmptyMap
  /\ lastRead = None
  /\ IhIdle /\ AggIdle /\ DdIdle /\ FltIdle /\ WrIdle /\ StIdle /\ RestIdle

SpecLive == InitLive /\ [][LiveNext]_vars /\ WF_vars(LiveProgress)

\* --------------- the write path of useSupabaseData, await by await (useSupabaseData.ts)

\* The DayData fetchLiveData builds from the events it gathered.
LiveDayData(events, dateStr) ==
  LET sortedEvents == SortByPostCountDesc(events)
  IN [date |-> dateStr, events |-> Rerank(sortedEvents),
      hasViralContent |-> Len(events) > 0,
      topHashtag |-> sortedEvents[1].hashtag]

\* The steps of a write in program order, the sync loop first.
WriteSteps_RemoteFirst(source, dates) ==
  (IF source = "supabase" THEN [k \in DOMAIN dates |-> [step |-> "upsert", date |-> dates[k]]]
                          ELSE <<>>)
    \o <<[step |-> "local", date |-> "none"], [step |-> "return", date |-> "none"]>>

\* The steps of a write in program order: the local write, then with source
\* 'supabase' one bulkInsert per date, then the return.
WriteSteps(source, dates) ==
  <<[step |-> "local", date |-> "none"]>>
    \o (IF source = "supabase"
        THEN [k \in DOMAIN dates |-> [step |-> "upsert", date |-> dates[k]]]
        ELSE <<>>)
    \o <<[step |-> "return", date |-> "none"]>>

\* What the catch around the sync leaves of the steps when bulkInsert throws.
AfterThrow(todo) == SelectSeq(todo, LAMBDA t : t.step # "upsert")

\* The calls of the write path made so far.
WritesSoFar == IF hkWrite = None THEN 0 ELSE hkWrite.n

\* A call in progress: the map to write, the source the callback closed over, the
\* steps still to run, the bulkInsert calls issued, and the value returned.
WriteCall(op, source, data, setItemOk, steps) ==
  [n |-> WritesSoFar + 1, op |-> op, source |-> source, data |-> data, setItemOk |-> setItemOk,
   todo |-> steps, local |-> FALSE, issued |-> <<>>, returned |-> FALSE, result |-> None]

\* No call of the write path is between its call and its return.
NoWriteRunning == IF hkWrite = None THEN TRUE ELSE hkWrite.returned

\* importHistoricalData is called and the importer has resolved; finalData is
\* computed.
WrImportCall ==
  /\ hook = "supabase"
  /\ NoWriteRunning
  /\ WritesSoFar < MaxWrites
  /\ \E data \in ImporterResults, newsOnly \in BOOLEAN, setItemOk \in BOOLEAN :
       LET finalData == IF newsOnly THEN filterNewsOnly(data) ELSE data
       IN hkWrite' = WriteCall("import", apiSource, finalData, setItemOk,
                               WriteSteps(apiSource, KeysInOrder(finalData)))
  /\ UNCHANGED <<now, hkVars, notHkWr>>

\* fetchLiveData is called and the three sources have answered; with no event
\* it returns null at once.
WrLiveCall ==
  /\ hook = "supabase"
  /\ NoWriteRunning
  /\ WritesSoFar < MaxWrites
  /\ \E date \in ReadDates, events \in LiveLists :
       hkWrite' =
         IF events = <<>>
         THEN WriteCall("live", apiSource, EmptyMap, TRUE,
                        <<[step |-> "return", date |-> "none"]>>)
         ELSE WriteCall("live", apiSource,
                        [d \in {IsoDay(date)} |-> LiveDayData(events, IsoDay(date))], TRUE,
                        WriteSteps(apiSource, <<IsoDay(date)>>))
  /\ UNCHANGED <<now, hkVars, notHkWr>>

\* The local write: saveToStorage and setHistoricalData, or setLocalData.
WrLocal ==
  /\ hkWrite # None
  /\ hkWrite.todo # <<>>
  /\ Head(hkWrite.todo).step = "local"
  /\ IF hkWrite.op = "import"
     THEN /\ storage' = saveToStorage(storage, hkWrite.data, hkWrite.setItemOk)
          /\ historicalData' = Merge(historicalData, hkWrite.data)
          /\ UNCHANGED liveData
     ELSE /\ liveData' = Merge(liveData, hkWrite.data)
          /\ UNCHANGED <<storage, historicalData>>
  /\ hkWrite' = [hkWrite EXCEPT !.todo = Tail(@), !.local = TRUE]
  /\ UNCHANGED <<now, hook, hkPc, configured, apiSource, remoteEvents, remoteSummaries,
                 lastRead, notHkWr>>

\* The rows the hook builds for the bucket of a date.
WriteRows(op, data, d) ==
  {Row(e, IF op = "import" THEN "reddit" ELSE SourceType(e.id), d) : e \in Range(data[d].events)}

\* await viralEventsApi.bulkInsert(eventsToInsert) resolves.
WrUpsertOk ==
  /\ hkWrite # None
  /\ hkWrite.todo # <<>>
  /\ Head(hkWrite.todo).step = "upsert"
  /\ LET d == Head(hkWrite.todo).date
     IN /\ \E db \in bulkInsert(Db(remoteEvents, remoteSummaries),
                                WriteRows(hkWrite.op, hkWrite.data, d)) :
             /\ remoteEvents' = db.events
             /\ remoteSummaries' = db.summaries
        /\ hkWrite' = [hkWrite EXCEPT !.todo = Tail(@),
                                      !.issued = Append(@, [date |-> d, ok |-> TRUE])]
  /\ UNCHANGED <<now, hook, hkPc, configured, apiSource, storage, historicalData, liveData,
                 lastRead, notHkWr>>

\* await viralEventsApi.bulkInsert(eventsToInsert) throws: the catch warns and the
\* rest of the sync is skipped.
WrUpsertFail ==
  /\ hkWrite # None
  /\ hkWrite.todo # <<>>
  /\ Head(hkWrite.todo).step = "upsert"
  /\ hkWrite' = [hkWrite EXCEPT !.todo = AfterThrow(Tail(@)),
                                !.issued = Append(@, [date |-> Head(hkWrite.todo).date,
                                                      ok |-> FALSE])]
  /\ UNCHANGED <<now, hkVars, notHkWr>>

\* The value the call resolves with: the number of dates of finalData, the
\* DayData of the date, or null when no event was gathered.
WriteResult(op, data) ==
  IF op = "import" THEN Cardinality(DOMAIN data)
  ELSE IF data = EmptyMap THEN Null
       ELSE data[CHOOSE d \in DOMAIN data : TRUE]

WrReturn ==
  /\ hkWrite # None
  /\ hkWrite.todo # <<>>
  /\ Head(hkWrite.todo).step = "return"
  /\ hkWrite' = [hkWrite EXCEPT !.todo = Tail(@), !.returned = TRUE,
                                !.result = WriteResult(hkWrite.op, hkWrite.data)]
  /\ UNCHANGED <<now, hkVars, notHkWr>>

WrNext ==
  \/ LoadInitialOk
  \/ LoadInitialFail
  \/ LoadInitialLocal
  \/ WrImportCall
  \/ WrLiveCall
  \/ WrLocal
  \/ WrUpsertOk
  \/ WrUpsertFail
  \/ WrReturn

InitWrite ==
  HkInit /\ hook = "supabase" /\ WrIdle /\ AggIdle /\ DdIdle /\ ImpIdle /\ FltIdle /\ IhIdle
    /\ StIdle /\ RestIdle

SpecWrite == InitWrite /\ [][WrNext]_vars

\* ------------------------------- the localStorage cache of the importer (part_008)

\* The event lists of the buckets written to the cache.
StoreBuckets == {<<EvH1>>, <<EvH2>>, <<EvH1, EvH2>>}

\* The maps handed to saveToStorage: each date absent or with one of the lists.
StoreMaps ==
  UNION {{[d \in ds |-> Bucket(d, f[d])] : f \in [ds -> StoreBuckets]} : ds \in SUBSET Dates}

StInit ==
  /\ now = "2025-01-01"
  /\ stItem \in {NoItem, Corrupt} \cup StoreMaps
  /\ stSaved = None

\* A call of saveToStorage(data); setItem throws (quota) or not.
StSave ==
  /\ \E data \in StoreMaps, setItemOk \in BOOLEAN :
       /\ stItem' = saveToStorage(stItem, data, setItemOk)
       /\ stSaved' = [before |-> stItem, data |-> data, setItemOk |-> setItemOk]
  /\ UNCHANGED <<now, notSt>>

\* A call of clearStorage(): removeItem.
StClear ==
  /\ stItem # NoItem
  /\ stItem' = NoItem
  /\ stSaved' = None
  /\ UNCHANGED <<now, notSt>>

StNext ==
  \/ StSave
  \/ StClear

InitStore == StInit /\ AggIdle /\ DdIdle /\ ImpIdle /\ FltIdle /\ HkIdle /\ IhIdle /\ WrIdle /\ RestIdle

SpecStore == InitStore /\ [][StNext]_vars

\* -------------------------------- the scheduled-job handler (part_010)

\* A JavaScript value: undefined, a string, or an array of strings.
JsUndefined == [t |-> "undefined"]

JsString(s) == [t |-> "string", v |-> s]

JsArray(a) == [t |-> "array", v |-> a]

\* process.env.CRON_SECRET: unset, or the secret.
CronSecrets == {JsUndefined, JsString("s3cret")}

\* req.headers['x-vercel-cron-secret']: absent, a string, or, the header being
\* sent twice, an array of strings.
CronHeaders ==
  {JsUndefined, JsString("s3cret"), JsString("guess"), JsArray(<<"s3cret", "s3cret">>)}

\* cronSecret !== process.env.CRON_SECRET is false: strict equality of the two values.
PassesSecretCheck(header, secret) == header = secret

\* The lists a source client resolves with in a cron run.
CronLists == {<<>>, <<EvA, EvC>>}

\* The source fetched after src: NewsAPI only when it is configured.
CronAfter(src, newsConfigured) ==
  IF src = "reddit" THEN "hackernews"
  ELSE IF src = "hackernews" /\ newsConfigured THEN "newsapi"
  ELSE "log"

CronInit ==
  /\ now = "2025-01-01"
  /\ remoteEvents = {}
  /\ remoteSummaries = EmptyMap
  /\ cron \in [secret : CronSecrets, header : CronHeaders, supabaseUrlSet : BOOLEAN,
               newsConfigured : BOOLEAN, pc : {"request"}, status : {0},
               fetched : {<<>>}, upserts : {<<>>}, imported : {0}, errors : {<<>>},
               jobs : {0}]

\* The handler up to its first await: 401 when the secret check fails; otherwise
\* createClient, which throws when SUPABASE_URL is unset.
CronAuth ==
  /\ cron # None
  /\ cron.pc = "request"
  /\ cron' = IF ~PassesSecretCheck(cron.header, cron.secret)
             THEN [cron EXCEPT !.pc = "responded", !.status = 401]
             ELSE IF ~cron.supabaseUrlSet
                  THEN [cron EXCEPT !.pc = "threw"]
                  ELSE [cron EXCEPT !.pc = "reddit"]
  /\ UNCHANGED <<now, aggVars, ddVars, impVars, fltVars, hkVars, ihVars, wrVars, stVars, restNotCr>>

\* One of the three try blocks: the client's fetch resolves and the rows are
\* upserted, the upsert answering with an error or not; or the fetch throws and
\* the message is pushed to results.errors.
CronFetch ==
  /\ cron # None
  /\ cron.pc \in {"reddit", "hackernews", "newsapi"}
  /\ \E fetchOk \in BOOLEAN, events \in CronLists, upsertOk \in BOOLEAN :
       LET src == cron.pc
           rows == {Row(e, src, now) : e \in Range(Rerank(events))}
           after == CronAfter(src, cron.newsConfigured)
       IN IF ~fetchOk
          THEN /\ cron' = [cron EXCEPT !.pc = after, !.fetched = Append(@, src),
                                       !.errors = Append(@, src)]
               /\ UNCHANGED <<remoteEvents, remoteSummaries>>
          ELSE /\ cron' = [cron EXCEPT !.pc = after, !.fetched = Append(@, src),
                                       !.upserts = Append(@, src),
                                       !.imported = IF upsertOk THEN @ + Len(events) ELSE @]
               /\ \E db \in IF upsertOk
                            THEN bulkInsert(Db(remoteEvents, remoteSummaries), rows)
                            ELSE {Db(remoteEvents, remoteSummaries)} :
                    /\ remoteEvents' = db.events
                    /\ remoteSummaries' = db.summaries
  /\ UNCHANGED <<now, hook, hkPc, configured, apiSource, storage, historicalData, liveData,
                 lastRead, aggVars, ddVars, impVars, fltVars, ihVars, wrVars, stVars,
                 restNotCr>>

\* The import_jobs row is inserted and the handler answers 200.
CronLogJob ==
  /\ cron # None
  /\ cron.pc = "log"
  /\ cron' = [cron EXCEPT !.pc = "responded", !.status = 200, !.jobs = @ + 1]
  /\ UNCHANGED <<now, aggVars, ddVars, impVars, fltVars, hkVars, ihVars, wrVars, stVars, restNotCr>>

CronNext ==
  \/ CronAuth
  \/ CronFetch
  \/ CronLogJob

InitCron ==
  /\ CronInit
  /\ hook = "none" /\ hkPc = "idle" /\ configured = FALSE /\ apiSource = "local"
  /\ storage = None /\ historicalData = EmptyMap /\ liveData = EmptyMap /\ lastRead = None
  /\ AggIdle /\ DdIdle /\ ImpIdle /\ FltIdle /\ IhIdle /\ WrIdle /\ StIdle /\ ClIdle /\ OvIdle
  /\ SeIdle /\ ThIdle

SpecCron == InitCron /\ [][CronNext]_vars

\* -------------------------------- the source clients (part_008, part_009)

\* The requests one call can issue.
MaxRequests == 3

\* An HTTP response: its status and the items of its body.
ClReplies ==
  {[status |-> 200, items |-> <<>>], [status |-> 200, items |-> <<1, 2>>],
   [status |-> 500, items |-> <<>>]}

\* axios resolves for a 2xx status and rejects for every other.
Is2xx(r) == r.status >= 200 /\ r.status < 300

\* How a call settles: it resolves with a list ("returned"), or rejects with the
\* not-configured error or with an upstream error; and the requests issued by then.
Outcome(kind, value, requests) == [kind |-> kind, value |-> value, requests |-> requests]

\* client.get(...) followed by the transform of the body, inside try/catch:
\* the catch either rethrows handleError(error) or returns [].
GetOrThrow(replies, k) ==
  IF Is2xx(replies[k + 1])
  THEN Outcome("returned", replies[k + 1].items, k + 1)
  ELSE Outcome("upstream", <<>>, k + 1)

GetOrEmpty(replies, k) ==
  IF Is2xx(replies[k + 1])
  THEN Outcome("returned", replies[k + 1].items, k + 1)
  ELSE Outcome("returned", <<>>, k + 1)

\* The items of a list, each once, in order of first occurrence.
RECURSIVE Unique(_)
Unique(s) ==
  IF s = <<>> THEN <<>>
  ELSE LET r == Unique(SubSeq(s, 1, Len(s) - 1))
       IN IF s[Len(s)] \in Range(r) THEN r ELSE Append(r, s[Len(s)])

\* XApiService: k requests were issued before the call.
searchTweets(conf, replies, k) ==
  IF ~conf THEN Outcome("notConfigured", <<>>, k) ELSE GetOrThrow(replies, k)

getTrendingTopics(conf, replies) ==
  IF ~conf THEN Outcome("notConfigured", <<>>, 0)
  ELSE LET s1 == searchTweets(conf, replies, 0)
           s2 == searchTweets(conf, replies, s1.requests)
       IN Outcome("returned", Unique(s1.value \o s2.value), s2.requests)

getTweetsByIds(conf, replies, ids) ==
  IF ~conf THEN Outcome("notConfigured", <<>>, 0)
  ELSE IF ids = <<>> THEN Outcome("returned", <<>>, 0)
  ELSE GetOrThrow(replies, 0)

getViralContentForDate(conf, replies) ==
  LET s == searchTweets(conf, replies, 0)
  IN IF s.kind = "returned" THEN s ELSE Outcome("returned", <<>>, s.requests)

\* NewsApiService.
getTopHeadlines(conf, replies, k) ==
  IF ~conf THEN Outcome("notConfigured", <<>>, k) ELSE GetOrThrow(replies, k)

searchNews(conf, replies, k) ==
  IF ~conf THEN Outcome("notConfigured", <<>>, k) ELSE GetOrThrow(replies, k)

getFromSources(conf, replies) ==
  IF ~conf THEN Outcome("notConfigured", <<>>, 0) ELSE GetOrEmpty(replies, 0)

getViralNewsForDate(conf, replies) ==
  LET h == getTopHeadlines(conf, replies, 0)
  IN IF h.kind # "returned" THEN Outcome("returned", <<>>, h.requests)
     ELSE LET s1 == searchNews(conf, replies, h.requests)
              s2 == searchNews(conf, replies, s1.requests)
          IN Outcome("returned", Unique(h.value \o s1.value \o s2.value), s2.requests)

\* RedditService, which has no credentials: the two methods over HTTP responses.
getPopularPosts(replies) == GetOrThrow(replies, 0)

getSubredditPostsHttp(replies) == GetOrEmpty(replies, 0)

\* HackerNewsService.getItem for the k-th request: the item, or null when the
\* request fails or the body is empty.
getItem(replies, k) ==
  IF Is2xx(replies[k]) /\ replies[k].items # <<>> THEN replies[k].items[1] ELSE 0

\* The stories of the ids of the first response, each fetched by getItem.
HnStories(replies) ==
  LET ids == replies[1].items
      got == [i \in 1..Len(ids) |-> getItem(replies, 1 + i)]
  IN Outcome("returned", SelectSeq(got, LAMBDA s : s # 0), 1 + Len(ids))

getTopStories(replies) ==
  IF Is2xx(replies[1]) THEN HnStories(replies) ELSE Outcome("upstream", <<>>, 1)

getBestStories(replies) ==
  IF Is2xx(replies[1]) THEN HnStories(replies) ELSE Outcome("returned", <<>>, 1)

\* The methods of each client.
ClMethods ==
  [x |-> {"searchTweets", "getTrendingTopics", "getTweetsByIds", "getViralContentForDate"},
   newsapi |-> {"getTopHeadlines", "searchNews", "getFromSources", "getViralNewsForDate"},
   reddit |-> {"getPopularPosts", "getSubredditPosts"},
   hackernews |-> {"getTopStories", "getBestStories"}]

\* The clients that need credentials.
ClAuthenticated == {"x", "newsapi"}

\* A call: the client, the method, whether the credentials are configured (the
\* other clients have none to configure), and the response to each request.
ClInit ==
  /\ now = "2025-01-01"
  /\ \E c \in DOMAIN ClMethods, m \in UNION {ClMethods[c] : c \in DOMAIN ClMethods},
        conf \in BOOLEAN, replies \in [1..MaxRequests -> ClReplies] :
       /\ m \in ClMethods[c]
       /\ c \notin ClAuthenticated => conf
       /\ call = [client |-> c, method |-> m, configured |-> conf, replies |-> replies,
                  pc |-> "called", out |-> None]

\* The call of method m settles as out.
ClSettle(m, out) ==
  /\ call # None
  /\ call.pc = "called"
  /\ call.method = m
  /\ call' = [call EXCEPT !.pc = "settled", !.out = out]
  /\ UNCHANGED <<now, aggVars, ddVars, impVars, fltVars, hkVars, ihVars, wrVars, stVars,
                 restNotCl>>

X_searchTweets == ClSettle("searchTweets", searchTweets(call.configured, call.replies, 0))

X_getTrendingTopics ==
  ClSettle("getTrendingTopics", getTrendingTopics(call.configured, call.replies))

X_getTweetsByIds ==
  ClSettle("getTweetsByIds", getTweetsByIds(call.configured, call.replies, <<1, 2>>))

X_getViralContentForDate ==
  ClSettle("getViralContentForDate", getViralContentForDate(call.configured, call.replies))

News_getTopHeadlines ==
  ClSettle("getTopHeadlines", getTopHeadlines(call.configured, call.replies, 0))

News_searchNews == ClSettle("searchNews", searchNews(call.configured, call.replies, 0))

News_getFromSources ==
  ClSettle("getFromSources", getFromSources(call.configured, call.replies))

News_getViralNewsForDate ==
  ClSettle("getViralNewsForDate", getViralNewsForDate(call.configured, call.replies))

Reddit_getPopularPosts == ClSettle("getPopularPosts", getPopularPosts(call.replies))

Reddit_getSubredditPosts == ClSettle("getSubredditPosts", getSubredditPostsHttp(call.replies))

Hn_getTopStories == ClSettle("getTopStories", getTopStories(call.replies))

Hn_getBestStories == ClSettle("getBestStories", getBestStories(call.replies))

ClNext ==
  \/ X_searchTweets
  \/ X_getTrendingTopics
  \/ X_getTweetsByIds
  \/ X_getViralContentForDate
  \/ News_getTopHeadlines
  \/ News_searchNews
  \/ News_getFromSources
  \/ News_getViralNewsForDate
  \/ Reddit_getPopularPosts
  \/ Reddit_getSubredditPosts
  \/ Hn_getTopStories
  \/ Hn_getBestStories

InitClients ==
  /\ ClInit
  /\ AggIdle /\ DdIdle /\ ImpIdle /\ FltIdle /\ HkIdle /\ IhIdle /\ WrIdle /\ StIdle /\ CrIdle
  /\ OvIdle /\ SeIdle /\ ThIdle

SpecClients == InitClients /\ [][ClNext]_vars

\* ------------------- two calls of the hook's importHistoricalData (useRedditData.ts)

\* The calls of the model.
OvCalls == {1, 2}

\* The options of a call: one subreddit in one timeframe (then r/all), maxPosts
\* of the caller, and the hook's one fixed minScore, here a threshold that part
\* of the posts pass and twice which part of the posts pass.
OvOptions ==
  {o \in ImpOptions : /\ Len(o.subreddits) = 1 /\ Len(o.timeframes) = 1
                      /\ o.minScore = 300 /\ o.maxPosts \in {1, 500}}

\* What a request of a call is answered with.
OvResponses ==
  {[ok |-> FALSE, events |-> <<>>]} \cup
  {[ok |-> TRUE, events |-> Rerank(l)] : l \in {<<EvA, EvB>>, <<EvP, EvD>>}}

\* A call that was not made yet.
OvNotCalled ==
  [pc |-> "idle", o |-> None, tf |-> 1, i |-> 1, total |-> 0, inst |-> 0, own |-> <<>>,
   result |-> None, overlap |-> FALSE]

\* A call is between its start and the end of its finally block.
OvRunning(c) == runs[c].pc \notin {"idle", "resolved"}

\* The importer of call c, were every call to use the exported redditImporter.
NewImporter_Singleton(c) == 1

\* new RedditHistoricalImporter(...): each call constructs an importer of its own.
NewImporter(c) == c

\* The hook's importHistoricalData up to the first await of the importer:
\* setIsImporting(true), the importer, this.importedData = {}, the first request.
OvStart(c) ==
  /\ runs[c].pc = "idle"
  /\ isImporting' = TRUE
  /\ \E o \in OvOptions :
       LET pos == OuterTop(o, 1, 0)
       IN runs' = [runs EXCEPT ![c] = [pc |-> pos.pc, o |-> o, tf |-> pos.tf, i |-> pos.i,
                                       total |-> 0, inst |-> NewImporter(c), own |-> <<>>,
                                       result |-> None,
                                       overlap |-> \E d \in OvCalls \ {c} : OvRunning(d)]]
  /\ importers' = [importers EXCEPT ![NewImporter(c)] = EmptyMap]
  /\ UNCHANGED <<now, aggVars, ddVars, impVars, fltVars, hkVars, wrVars, stVars, restNotOv>>

\* getSubredditPosts of call c resolved: the posts are filtered, merged into
\* this.importedData of its importer and counted; the delay starts.
OvFetchDone(c) ==
  /\ runs[c].pc = "fetch"
  /\ \E resp \in OvResponses :
       LET filteredPosts == FilterByScore(getSubredditPosts(resp), runs[c].o.minScore)
       IN /\ importers' = [importers EXCEPT
                             ![runs[c].inst] = processPosts(@, filteredPosts, now)]
          /\ runs' = [runs EXCEPT ![c].pc = "delay",
                                  ![c].total = @ + Len(filteredPosts),
                                  ![c].own = @ \o filteredPosts]
  /\ UNCHANGED <<now, aggVars, ddVars, impVars, fltVars, hkVars, ihVars, wrVars, stVars,
                 restNotOv>>

\* The delay of call c elapsed: the maxPosts check, then the next request.
OvDelayDone(c) ==
  /\ runs[c].pc = "delay"
  /\ LET pos == AfterDelay(runs[c].o, runs[c].tf, runs[c].i, runs[c].total)
     IN runs' = [runs EXCEPT ![c].pc = pos.pc, ![c].tf = pos.tf, ![c].i = pos.i]
  /\ UNCHANGED <<now, importers, aggVars, ddVars, impVars, fltVars, hkVars, ihVars, wrVars,
                 stVars, restNotOv>>

\* getPopularPosts of call c settled: posts of at least twice minScore are
\* merged, or the catch logs; the importer returns this.importedData.
OvAllDone(c) ==
  /\ runs[c].pc = "rall"
  /\ \E resp \in OvResponses :
       LET filtered == FilterByScore(resp.events, runs[c].o.minScore * 2)
       IN /\ importers' = [importers EXCEPT ![runs[c].inst] = processPosts(@, filtered, now)]
          /\ runs' = [runs EXCEPT ![c].pc = "done", ![c].own = @ \o filtered]
  /\ UNCHANGED <<now, aggVars, ddVars, impVars, fltVars, hkVars, ihVars, wrVars, stVars,
                 restNotOv>>

\* The hook continues after its await with the object the importer returned:
\* the optional news filter, saveToStorage, the merge into historicalData, and
\* in the finally setIsImporting(false).
OvResolve(c) ==
  /\ runs[c].pc = "done"
  /\ \E newsOnly \in BOOLEAN, setItemOk \in BOOLEAN :
       LET data == importers[runs[c].inst]
           finalData == IF newsOnly THEN filterNewsOnly(data) ELSE data
       IN /\ storage' = saveToStorage(storage, finalData, setItemOk)
          /\ historicalData' = Merge(historicalData, finalData)
          /\ runs' = [runs EXCEPT ![c].pc = "resolved", ![c].result = data]
  /\ isImporting' = FALSE
  /\ UNCHANGED <<now, importers, hook, hkPc, configured, apiSource, liveData, remoteEvents,
                 remoteSummaries, lastRead, aggVars, ddVars, impVars, fltVars, wrVars, stVars,
                 restNotOv>>

OvNext ==
  \/ \E c \in OvCalls : OvStart(c)
  \/ \E c \in OvCalls : OvFetchDone(c)
  \/ \E c \in OvCalls : OvDelayDone(c)
  \/ \E c \in OvCalls : OvAllDone(c)
  \/ \E c \in OvCalls : OvResolve(c)

\* The hook mounted over an empty cache, no import started.
InitOverlap ==
  /\ now = "2025-01-01"
  /\ runs = [c \in OvCalls |-> OvNotCalled]
  /\ importers = [c \in OvCalls |-> EmptyMap]
  /\ hook = "reddit" /\ hkPc = "ready" /\ configured = FALSE /\ apiSource = "local"
  /\ storage = NoItem /\ historicalData = EmptyMap /\ liveData = EmptyMap
  /\ remoteEvents = {} /\ remoteSummaries = EmptyMap /\ lastRead = None
  /\ AggIdle /\ DdIdle /\ ImpIdle /\ FltIdle /\ IhIdle /\ WrIdle /\ StIdle /\ CrIdle /\ ClIdle
  /\ SeIdle /\ ThIdle

SpecOverlap == InitOverlap /\ [][OvNext]_vars

\* ------------------------------- searchEvents of useRedditData (182-218)

\* summary of an event: transformPostsToEvents sets it to the title.
SummaryOf(e) == e.title

\* The filter of searchInData for one event; lowerQuery is query.toLowerCase(),
\* and !typeFilter holds for the omitted argument, written "".
MatchesSearch(e, lowerQuery, typeFilter) ==
  LET matchesQuery ==
        \/ Includes(toLowerCase(e.title), lowerQuery)
        \/ Includes(toLowerCase(SummaryOf(e)), lowerQuery)
        \/ /\ ~Falsy(e.hashtag)
           /\ Includes(toLowerCase(e.hashtag), lowerQuery)
      matchesType == typeFilter = "all" \/ typeFilter = "" \/ e.type = typeFilter
  IN matchesQuery /\ matchesType

\* The body of the forEach of searchInData for one bucket: acc holds results and seen.
SearchInBucket(acc, dayData, lowerQuery, typeFilter) ==
  IF dayData.date \in acc.seen THEN acc
  ELSE LET matchingEvents ==
             SelectSeq(dayData.events, LAMBDA e : MatchesSearch(e, lowerQuery, typeFilter))
       IN IF Len(matchingEvents) > 0
          THEN [results |-> Append(acc.results, [dayData EXCEPT !.events = matchingEvents]),
                seen |-> acc.seen \cup {dayData.date}]
          ELSE acc

RECURSIVE SearchInDataRec(_, _, _, _, _)
SearchInDataRec(acc, data, keys, lowerQuery, typeFilter) ==
  IF keys = <<>> THEN acc
  ELSE SearchInDataRec(SearchInBucket(acc, data[Head(keys)], lowerQuery, typeFilter),
                       data, Tail(keys), lowerQuery, typeFilter)

\* searchInData(data): Object.values(data).forEach(...).
searchInData(acc, data, lowerQuery, typeFilter) ==
  SearchInDataRec(acc, data, KeysInOrder(data), lowerQuery, typeFilter)

RECURSIVE SortByDateDescRec(_, _)
SortByDateDescRec(results, k) ==
  IF k = 0 THEN <<>>
  ELSE SelectSeq(results, LAMBDA r : r.date = DateOrder[k]) \o SortByDateDescRec(results, k - 1)

\* results.sort((a, b) => new Date(b.date) - new Date(a.date)): stable, latest first.
SortByDateDesc(results) == SortByDateDescRec(results, Len(DateOrder))

\* searchEvents(query, typeFilter) of useRedditData: liveData, then
\* historicalData, then the mock data.
searchEvents(live, hist, query, typeFilter) ==
  LET lowerQuery == toLowerCase(query)
      a1 == searchInData([results |-> <<>>, seen |-> {}], live, lowerQuery, typeFilter)
      a2 == searchInData(a1, hist, lowerQuery, typeFilter)
      a3 == searchInData(a2, viralData, lowerQuery, typeFilter)
  IN SortByDateDesc(a3.results)

\* The queries and type filters of the model.
SearchQueries == {<<"N", "e", "w", "s">>, <<"c", "a", "t">>, K_science}

SearchTypes == {"all", "", "news", "meme"}

\* What liveData holds: buckets as fetchLiveDataForDate caches them.
SearchLives ==
  {EmptyMap,
   [d \in {"2025-01-01"} |-> Bucket(d, Rerank(<<EvA>>))],
   [d \in {"2025-01-01"} |-> Bucket(d, Rerank(<<EvA, EvC>>))],
   [d \in {"2025-01-02"} |-> Bucket(d, Rerank(<<EvC>>))]}

\* The hook is mounted; liveData and historicalData hold what fetches and imports left.
SeInit ==
  /\ now = "2025-01-01"
  /\ hook = "reddit" /\ hkPc = "ready" /\ configured = FALSE /\ apiSource = "local"
  /\ storage = NoItem
  /\ liveData \in SearchLives
  /\ historicalData \in ImporterResults
  /\ remoteEvents = {} /\ remoteSummaries = EmptyMap /\ lastRead = None
  /\ search = None

\* A call of searchEvents.
Search ==
  /\ search = None
  /\ \E query \in SearchQueries, typeFilter \in SearchTypes :
       search' = [query |-> query, typeFilter |-> typeFilter,
                  results |-> searchEvents(liveData, historicalData, query, typeFilter)]
  /\ UNCHANGED <<now, aggVars, ddVars, impVars, fltVars, hkVars, ihVars, wrVars, stVars,
                 restNotSe>>

SeNext == Search

InitSearch ==
  /\ SeInit
  /\ AggIdle /\ DdIdle /\ ImpIdle /\ FltIdle /\ IhIdle /\ WrIdle /\ StIdle /\ CrIdle /\ ClIdle
  /\ OvIdle /\ ThIdle

SpecSearch == InitSearch /\ [][SeNext]_vars

\* ------------------------------------------------ useTheme (part_002)

\* The calls of toggleTheme and setDarkMode in a behaviour, which th.calls lists.
MaxCalls == 3

\* mediaQuery.matches ? 'dark' : 'light'
SystemTheme(matches) == IF matches THEN "dark" ELSE "light"

\* prev === 'dark' ? 'light' : 'dark'
Opposite(theme) == IF theme = "dark" THEN "light" ELSE "dark"

\* The first render: useState('dark'), useState(true), the effect not yet run;
\* the system prefers dark or light.
ThInit ==
  /\ now = "2025-01-01"
  /\ \E matches \in BOOLEAN :
       th = [theme |-> "dark", isSystemPreference |-> TRUE, matches |-> matches,
             effect |-> "pending", listening |-> FALSE, captured |-> TRUE,
             call |-> None, calls |-> <<>>]

\* The effect, run after the first render and after each render in which
\* isSystemPreference changed: setTheme to the system's theme, and handleChange,
\* closed over isSystemPreference, listens in place of the listener before.
ThEffect ==
  /\ th # None
  /\ th.effect = "pending"
  /\ th' = [th EXCEPT !.effect = "done", !.theme = SystemTheme(th.matches),
                      !.listening = TRUE, !.captured = th.isSystemPreference]
  /\ UNCHANGED <<now, aggVars, ddVars, impVars, fltVars, hkVars, ihVars, wrVars, stVars,
                 restNotTh>>

\* The system preference changes: handleChange, when it listens, sets the theme
\* if its isSystemPreference is true.
ThSystemChange ==
  /\ th # None
  /\ th.effect = "done"
  /\ th' = [th EXCEPT !.matches = ~th.matches,
                      !.theme = IF th.listening /\ th.captured
                                THEN SystemTheme(~th.matches) ELSE @,
                      !.call = None]
  /\ UNCHANGED <<now, aggVars, ddVars, impVars, fltVars, hkVars, ihVars, wrVars, stVars,
                 restNotTh>>

\* toggleTheme(): setIsSystemPreference(false) and setTheme to the opposite; the
\* effect runs again when isSystemPreference changed.
ThToggleTheme ==
  /\ th # None
  /\ th.effect = "done"
  /\ Len(th.calls) < MaxCalls
  /\ th' = [th EXCEPT !.isSystemPreference = FALSE, !.theme = Opposite(th.theme),
                      !.effect = IF th.isSystemPreference THEN "pending" ELSE "done",
                      !.call = [op |-> "toggleTheme", before |-> th.theme],
                      !.calls = Append(@, "toggleTheme")]
  /\ UNCHANGED <<now, aggVars, ddVars, impVars, fltVars, hkVars, ihVars, wrVars, stVars,
                 restNotTh>>

\* setDarkMode(isDark): setIsSystemPreference(false) and setTheme.
ThSetDarkMode ==
  /\ th # None
  /\ th.effect = "done"
  /\ Len(th.calls) < MaxCalls
  /\ \E isDark \in BOOLEAN :
       th' = [th EXCEPT !.isSystemPreference = FALSE, !.theme = SystemTheme(isDark),
                        !.effect = IF th.isSystemPreference THEN "pending" ELSE "done",
                        !.call = [op |-> "setDarkMode", isDark |-> isDark],
                        !.calls = Append(@, IF isDark THEN "setDarkMode(true)"
                                                      ELSE "setDarkMode(false)")]
  /\ UNCHANGED <<now, aggVars, ddVars, impVars, fltVars, hkVars, ihVars, wrVars, stVars,
                 restNotTh>>

ThNext ==
  \/ ThEffect
  \/ ThSystemChange
  \/ ThToggleTheme
  \/ ThSetDarkMode

InitTheme ==
  /\ ThInit
  /\ AggIdle /\ DdIdle /\ ImpIdle /\ FltIdle /\ HkIdle /\ IhIdle /\ WrIdle /\ StIdle
  /\ CrIdle /\ ClIdle /\ OvIdle /\ SeIdle

SpecTheme == InitTheme /\ [][ThNext]_vars

-----------------------------------------------------------------------------
\* The requests for subreddit units issued so far, in order.
UnitRequests == SelectSeq(impFetched, LAMBDA r : r.kind = "subreddit")

\* The k-th unit of the iteration: timeframes outermost, subreddits innermost.
UnitAt(o, k) ==
  [subreddit |-> o.subreddits[((k - 1) % Len(o.subreddits)) + 1],
   timeframe |-> o.timeframes[((k - 1) \div Len(o.subreddits)) + 1]]

UnitCount(o) == Len(o.subreddits) * Len(o.timeframes)

\* The ids held by a date-keyed map, and the ids of the posts of the settled requests.
IdsOf(data) == {e.id : e \in EventsOf(data)}

IdsMerged(log) == UNION {{e.id : e \in Range(log[k].posts)} : k \in DOMAIN log}

\* C10: a failed subreddit fetch never aborts the import.  The subreddit requests
\* are, one each and in order, the units of the iteration; the loop is left only
\* when every unit was requested or maxPosts was reached, whatever failed; a failed
\* request merges nothing; and the import resolves with the accumulator, which
\* holds the posts merged from the requests that succeeded.
Thm_C10 ==
  impPc \notin {"idle", "call"} =>
    /\ Len(UnitRequests) <= UnitCount(impOpts)
    /\ \A k \in DOMAIN UnitRequests :
         /\ UnitRequests[k].subreddit = UnitAt(impOpts, k).subreddit
         /\ UnitRequests[k].timeframe = UnitAt(impOpts, k).timeframe
         /\ UnitRequests[k].outcome = "failed" => UnitRequests[k].posts = <<>>
    /\ impPc \in {"rall", "done"} =>
         \/ Len(UnitRequests) = UnitCount(impOpts)
         \/ totalProcessed >= impOpts.maxPosts
    /\ impPc = "done" =>
         /\ impResult = importedData
         /\ IdsOf(impResult) = IdsMerged(impFetched)
         /\ EventsOf(impResult) \subseteq UNION {Range(impFetched[k].posts) : k \in DOMAIN impFetched}

\* The layers of a read, as the record of the read has them: whether the remote
\* store holds a bucket for the date, and the entry of the mock dataset.
RemoteHolds(r) == Truthy(r.remoteHeld)

MockOf(r) == getMockDayData(r.dateStr)

\* Whether a layer consulted before the local cache (historicalData) holds the
\* date: liveData in useRedditData, the remote store in getDayData of
\* useSupabaseData; getDayDataSync consults none.
HigherHolds(r) ==
  \/ hook = "reddit" /\ r.live # None
  \/ hook = "supabase" /\ r.fn = "getDayData" /\ RemoteHolds(r)

\* C5: a read (getDayData of either hook, getDayDataSync) returns the mock entry
\* for a date that only the mock dataset holds, the local-cache entry
\* (historicalData) for a date that the local cache and the mock dataset hold and
\* no layer consulted before the local cache holds, and undefined for a date
\* that no layer holds.
Thm_C5 ==
  lastRead # None =>
    /\ (/\ MockOf(lastRead) # None
        /\ lastRead.hist = None
        /\ lastRead.live = None
        /\ ~RemoteHolds(lastRead))
         => ~lastRead.rejected /\ lastRead.value = MockOf(lastRead)
    /\ (/\ MockOf(lastRead) # None
        /\ lastRead.hist # None
        /\ ~HigherHolds(lastRead))
         => ~lastRead.rejected /\ lastRead.value = lastRead.hist
    /\ (/\ MockOf(lastRead) = None
        /\ lastRead.hist = None
        /\ lastRead.live = None
        /\ ~RemoteHolds(lastRead))
         => ~lastRead.rejected /\ lastRead.value = None

\* A read of a date held by the local cache (from an import) and by the mock
\* dataset, with entries that differ, answered with the local-cache entry.
Wit_C5 ==
  /\ lastRead # None
  /\ MockOf(lastRead) # None
  /\ lastRead.hist # None
  /\ lastRead.hist # MockOf(lastRead)
  /\ lastRead.hist.events # <<>>
  /\ ~HigherHolds(lastRead)
  /\ lastRead.value = lastRead.hist

\* What the layers below the remote store give for the date of a read.
LocalOrMock(r) ==
  IF r.hist # None THEN r.hist ELSE IF r.live # None THEN r.live ELSE MockOf(r)

\* C6: when getDayData of useSupabaseData asks the remote store and the read
\* fails (the events query throws, or the summary query errs), the call does not
\* reject and returns the local-cache value for the date, or the mock value, or
\* undefined when neither has the date.
Thm_C6 ==
  (/\ lastRead # None
   /\ hook = "supabase"
   /\ lastRead.fn = "getDayData"
   /\ lastRead.asked
   /\ lastRead.outcome \in {"eventsError", "summaryError"})
    => /\ ~lastRead.rejected
       /\ lastRead.value = LocalOrMock(lastRead)

\* A remote read that threw, for a date the remote store and the local cache
\* both hold: the local-cache value came back.
Wit_C6 ==
  /\ lastRead # None
  /\ hook = "supabase"
  /\ lastRead.fn = "getDayData"
  /\ lastRead.asked
  /\ lastRead.outcome = "eventsError"
  /\ RemoteHolds(lastRead)
  /\ lastRead.hist # None
  /\ lastRead.value = lastRead.hist

\* C7 as stated: getDayData of useSupabaseData returns the remote bucket whenever
\* the remote store is configured, reachable and holds a bucket for the date, and
\* returns the value of a lower layer only when the remote store is not
\* configured, failed, or has no bucket for the date.
Orig_C7 ==
  (/\ lastRead # None
   /\ hook = "supabase"
   /\ lastRead.fn = "getDayData")
    => /\ (configured /\ lastRead.outcome = "ok" /\ RemoteHolds(lastRead))
            => lastRead.value = lastRead.remoteHeld
       /\ lastRead.value # lastRead.remoteHeld
            => /\ \/ ~configured
                  \/ lastRead.outcome # "ok"
                  \/ ~RemoteHolds(lastRead)
               /\ lastRead.value = LocalOrMock(lastRead)

\* How many times e occurs in a list.
Count(events, e) == Cardinality({k \in DOMAIN events : events[k] = e})

\* C8: filterNewsOnly(m) has only dates of m; each of its buckets has no more
\* events than the bucket of m for that date, all of them events of that bucket
\* (none more often than there), and at least one; a bucket of m whose events are
\* all non-news has no bucket in the result.
Thm_C8 ==
  fltOut # None =>
    /\ DOMAIN fltOut \subseteq DOMAIN fltIn
    /\ \A d \in DOMAIN fltOut :
         /\ Len(fltOut[d].events) <= Len(fltIn[d].events)
         /\ Len(fltOut[d].events) > 0
         /\ \A e \in Range(fltOut[d].events) :
              /\ e \in Range(fltIn[d].events)
              /\ Count(fltOut[d].events, e) <= Count(fltIn[d].events, e)
    /\ \A d \in DOMAIN fltIn :
         (\A e \in Range(fltIn[d].events) : ~ImpIsNews(e)) => d \notin DOMAIN fltOut

\* A map one bucket of which lost some but not all of its events, and another
\* bucket of which, holding only non-news events, was removed.
Wit_C8 ==
  /\ fltOut # None
  /\ \E d \in DOMAIN fltOut : Len(fltOut[d].events) < Len(fltIn[d].events)
  /\ \E d \in DOMAIN fltIn : fltIn[d].events # <<>> /\ d \notin DOMAIN fltOut

\* An import that resolved with posts merged after an earlier unit had failed.
Wit_C10 ==
  /\ impPc = "done"
  /\ \E k \in DOMAIN UnitRequests :
       /\ UnitRequests[k].outcome = "failed"
       /\ \E m \in DOMAIN UnitRequests : m > k /\ UnitRequests[m].posts # <<>>
  /\ impResult # EmptyMap

-----------------------------------------------------------------------------
\* C11: in one importHistoricalData run at most one Reddit request is in flight
\* (only the request issued last can be unsettled), and every request that
\* follows a subreddit request, the next unit or the r/all fetch, started after
\* the full 2000 ms delay had been awaited since that request settled, whether it
\* had succeeded or failed.
Thm_C11 ==
  /\ \A k \in DOMAIN impFetched :
       impFetched[k].outcome = "pending" => k = Len(impFetched) /\ impPc \in {"fetch", "rall"}
  /\ \A k \in DOMAIN impFetched :
       (k > 1 /\ impFetched[k - 1].kind = "subreddit") => impFetched[k].waited >= DelayMs

\* A run in which a request followed a failed subreddit request and another
\* followed a successful one.
Wit_C11 ==
  /\ impPc = "done"
  /\ \E k \in DOMAIN impFetched :
       k > 1 /\ impFetched[k - 1].outcome = "failed" /\ impFetched[k].kind = "subreddit"
  /\ \E k \in DOMAIN impFetched :
       k > 1 /\ impFetched[k - 1].outcome = "ok" /\ impFetched[k - 1].kind = "subreddit"

-----------------------------------------------------------------------------
\* A step in which onProgress is called: a request is added to the log.
Emits == Len(impFetched') = Len(impFetched) + 1

\* What C12 asks of a step: every emission has 1 <= current <= total; the
\* emission before a unit has total = subreddits.length x timeframes.length and
\* current = the 1-based position of the unit (timeframes outermost), and is one
\* more than the current of the emission of the unit before it.
ProgressStep ==
  Emits =>
    /\ 1 <= impProgress'.current
    /\ impProgress'.current <= impProgress'.total
    /\ impPc' = "fetch" =>
         /\ impProgress'.total = UnitCount(impOpts)
         /\ impProgress'.current = (impTf' - 1) * Len(impOpts.subreddits) + impI'
         /\ impPc = "delay" => impProgress'.current = impProgress.current + 1

\* C12 as stated: the progress emitted before each unit has total =
\* subreddits.length x timeframes.length and current = the 1-based position of the
\* unit in the nested iteration, rising by exactly 1 from unit to unit, for any
\* timeframes list, one with a repeated timeframe included.
Orig_C12 == [][ProgressStep]_vars

-----------------------------------------------------------------------------
RECURSIVE SumOfLens(_, _)
\* The number of events in the buckets of the dates ds of a map.
SumOfLens(data, ds) ==
  IF ds = {} THEN 0
  ELSE LET d == CHOOSE x \in ds : TRUE
       IN Len(data[d].events) + SumOfLens(data, ds \ {d})

\* The number of posts accumulated in a map.
PostsIn(data) == SumOfLens(data, DOMAIN data)

\* While the request that follows an emission is in flight the accumulator is as
\* it was at the emission: the figure emitted is the number of posts in it.
PostsFoundIsPosts ==
  impPc \in {"fetch", "rall"} => impProgress.postsFound = PostsIn(importedData)

\* From one emission to the next the figure does not go down.
PostsFoundGrows ==
  (Emits /\ impProgress # None) => impProgress'.postsFound >= impProgress.postsFound

\* C13 as stated: postsFound of every progress snapshot is the number of posts
\* accumulated into the import result so far, and never decreases over a run.
Orig_C13 == []PostsFoundIsPosts /\ [][PostsFoundGrows]_vars

-----------------------------------------------------------------------------
\* No two events of one bucket of a map share an id.
NoDupIds(data) ==
  \A d \in DOMAIN data :
    \A j, k \in DOMAIN data[d].events :
      data[d].events[j].id = data[d].events[k].id => j = k

\* The ids of the events of the bucket of day d, none when there is no bucket.
BucketIds(data, d) ==
  IF d \in DOMAIN data THEN {data[d].events[k].id : k \in DOMAIN data[d].events} ELSE {}

\* A step in which a request settles and its posts are merged.
Merges == Len(impFetched') = Len(impFetched) /\ impFetched' # impFetched

\* The posts merged by a step that Merges.
MergedPosts == impFetched'[Len(impFetched')].posts

\* A merge leaves every bucket as it was up to the events it appends, appends one
\* event per id that the day's bucket lacked, and changes nothing at all when the
\* day's bucket held the id of every post.
SkipsPresentIds ==
  Merges =>
    LET ids == {MergedPosts[k].id : k \in DOMAIN MergedPosts}
        held == BucketIds(importedData, now)
    IN /\ ExtendsBuckets(importedData', importedData)
       /\ ids # {} =>
            Len(importedData'[now].events) = Cardinality(held) + Cardinality(ids \ held)
       /\ ids \subseteq held => importedData' = importedData

\* C14: after any sequence of processPosts merges no date bucket holds two events
\* of one id, and a post whose id its date bucket already holds is skipped, the
\* bucket being left unchanged.
Thm_C14 == []NoDupIds(importedData) /\ [][SkipsPresentIds]_vars

\* An import that resolved after merging, on one day, a post whose id an earlier
\* request had already merged.
Wit_C14 ==
  /\ impPc = "done"
  /\ now = "2025-01-01"
  /\ \E j, k \in DOMAIN impFetched :
       /\ j < k
       /\ \E e \in Range(impFetched[j].posts) :
            \E f \in Range(impFetched[k].posts) : e.id = f.id

-----------------------------------------------------------------------------
\* topHashtag of every bucket of a map is the hashtag of its first-listed event.
TopIsFirstListed(data) ==
  \A d \in DOMAIN data :
    data[d].events # <<>> => data[d].topHashtag = data[d].events[1].hashtag

\* C15 as stated: in every bucket of the map importHistoricalData returns, and of
\* filterNewsOnly applied to that map, topHashtag is the hashtag of the bucket's
\* highest-ranked, first-listed event.
Orig_C15 ==
  impPc = "done" =>
    /\ TopIsFirstListed(impResult)
    /\ TopIsFirstListed(filterNewsOnly(impResult))

-----------------------------------------------------------------------------
\* The events of every bucket of a map are in descending postCount order and the
\* k-th of them has trendingRank k.
SortedAndRanked(data) ==
  \A d \in DOMAIN data :
    /\ \A j, k \in DOMAIN data[d].events :
         j < k => data[d].events[j].postCount >= data[d].events[k].postCount
    /\ \A k \in DOMAIN data[d].events : data[d].events[k].trendingRank = k

\* C16 as stated: in every bucket of the map importHistoricalData returns the
\* events are in descending postCount order and their trendingRank values are
\* 1..N without a gap or a repeat.
Orig_C16 == impPc = "done" => SortedAndRanked(impResult)

-----------------------------------------------------------------------------
\* The cached bucket of a date: what loadFromStorage returns for it.
Cached(st, d) == Lookup(loadFromStorage(st), d)

\* After the call every date of the map is cached with the map's bucket and every
\* other date is cached as it was before the call.
ShallowMerged ==
  /\ \A d \in DOMAIN stSaved.data : Cached(stItem, d) = stSaved.data[d]
  /\ \A d \in Dates \ DOMAIN stSaved.data : Cached(stItem, d) = Cached(stSaved.before, d)

-----------------------------------------------------------------------------
\* A step that issues a bulkInsert, and one whose bulkInsert throws.
IssuesUpsert == hkWrite # None /\ hkWrite' # None /\ Len(hkWrite'.issued) > Len(hkWrite.issued)

UpsertThrows == IssuesUpsert /\ ~hkWrite'.issued[Len(hkWrite'.issued)].ok

\* The local write is done before any bulkInsert is issued; no date is sent twice
\* and nothing is sent after a bulkInsert that threw; and the call returns what
\* its data alone determines, the number of dates of an import and the DayData
\* of a live fetch, whatever the bulkInserts did.
WriteOrder ==
  hkWrite # None =>
    /\ hkWrite.issued # <<>> => hkWrite.local
    /\ \A j, k \in DOMAIN hkWrite.issued :
         /\ hkWrite.issued[j].date = hkWrite.issued[k].date => j = k
         /\ j < k => hkWrite.issued[j].ok
    /\ hkWrite.returned =>
         /\ hkWrite.data # EmptyMap => hkWrite.local
         /\ hkWrite.op = "import" => hkWrite.result = Cardinality(DOMAIN hkWrite.data)
         /\ hkWrite.op = "live" /\ hkWrite.data # EmptyMap =>
              \E d \in DOMAIN hkWrite.data : hkWrite.result = hkWrite.data[d]

\* A bulkInsert, failing or not, leaves what was written locally as it is, and a
\* failing one leaves the database as it is.
UpsertKeepsLocal ==
  /\ IssuesUpsert => UNCHANGED <<storage, historicalData, liveData>>
  /\ UpsertThrows => UNCHANGED <<remoteEvents, remoteSummaries>>

\* C18: on the write path of useSupabaseData the local write completes before any
\* remote upsert is issued, and a failing upsert is not retried, does not undo or
\* alter the local write, and changes neither that the call resolves nor its result.
Thm_C18 == []WriteOrder /\ [][UpsertKeepsLocal]_vars

\* An import of two dates that returned after its second bulkInsert threw, the
\* buckets it wrote locally still in historicalData.
Wit_C18 ==
  /\ hkWrite # None
  /\ hkWrite.op = "import"
  /\ hkWrite.returned
  /\ Len(hkWrite.issued) = 2
  /\ ~hkWrite.issued[2].ok
  /\ hkWrite.result = 2
  /\ \A d \in DOMAIN hkWrite.data : Lookup(historicalData, d) = hkWrite.data[d]

-----------------------------------------------------------------------------
\* The position fetchViralContent is at once the fetches of a stage are over.
AfterStage(stage, o) ==
  IF StageFrom(stage, o) = "finish" THEN "done" ELSE StageFrom(stage, o)

\* Whether a fetch resolved or rejected, the fetch that follows it in program
\* order is the next one made: the three news subreddits after r/all, then
\* NewsAPI and Hacker News where selected.
NoFetchSuppressed ==
  /\ aggPc = "reddit" => aggPc' = "subs" /\ aggSub' = 1
  /\ (aggPc = "subs" /\ aggSub < Len(AggSubreddits)) => aggPc' = "subs" /\ aggSub' = aggSub + 1
  /\ (aggPc = "subs" /\ aggSub = Len(AggSubreddits)) => aggPc' = AfterStage("newsapi", aggOpts)
  /\ aggPc = "newsapi" => aggPc' = AfterStage("hn", aggOpts)
  /\ aggPc = "hn" => aggPc' = "done"

\* The call resolves with today's bucket, and every collected event that passes
\* the filters is in it, itself or the earlier event of its normalized title,
\* unless maxResults cuts the list.
ResolvesWithCollected ==
  aggPc = "done" =>
    /\ aggResult # None
    /\ aggResult.date = now
    /\ Cardinality(KeysPassing) <= aggOpts.maxResults =>
         \A i \in DOMAIN allEvents :
           PassesFilters(allEvents[i]) =>
             \E k \in DOMAIN aggResult.events :
               TitleKey(aggResult.events[k].title) = TitleKey(allEvents[i].title)

\* C19 as stated: whichever source fetches fail, fetchViralContent resolves with
\* today's bucket holding the qualifying events of every fetch that succeeded, and
\* the failure of one fetch never suppresses another fetch or its results.
Orig_C19 == []ResolvesWithCollected /\ [][NoFetchSuppressed]_vars

-----------------------------------------------------------------------------
\* The state of the import: Idle, Running, Completed or PartiallyFailed.
ImportState ==
  IF impPc = "idle" THEN "Idle"
  ELSE IF impPc # "done" \/ isImporting THEN "Running"
  ELSE IF \E k \in DOMAIN impFetched : impFetched[k].outcome = "failed" THEN "PartiallyFailed"
  ELSE "Completed"

\* C20: an import always terminates.  While the hook's isImporting flag is set the
\* import is Running, and a Running import eventually is Completed or
\* PartiallyFailed with the flag false again, whatever the options and whichever
\* requests fail.
Thm_C20 ==
  /\ [](isImporting <=> ImportState = "Running")
  /\ (ImportState = "Running") ~> (ImportState \in {"Completed", "PartiallyFailed"} /\ ~isImporting)

\* An import over several units that ended PartiallyFailed, the flag false again.
Wit_C20 ==
  /\ ImportState = "PartiallyFailed"
  /\ ~isImporting
  /\ Len(UnitRequests) >= 2
  /\ \E k \in DOMAIN impFetched : impFetched[k].outcome = "ok" /\ impFetched[k].posts # <<>>

-----------------------------------------------------------------------------
\* filterNewsOnly kept the event e of the bucket of date d it was handed.
KeptByFilter(d, e) == d \in DOMAIN fltOut /\ e \in Range(fltOut[d].events)

\* C21 as stated: filterNewsOnly keeps an event if and only if the newsOnly step
\* of fetchViralContent keeps it, whatever its type and hashtag.
Orig_C21 ==
  fltOut # None =>
    \A d \in DOMAIN fltIn :
      \A e \in Range(fltIn[d].events) : KeptByFilter(d, e) <=> AggIsNews(e)

-----------------------------------------------------------------------------
\* hasViralContent of a bucket is true exactly when it lists an event.
FlagIsNonEmpty(b) == b.hasViralContent <=> b.events # <<>>

AllFlagged(data) == \A d \in DOMAIN data : FlagIsNonEmpty(data[d])

\* C22 as stated: in every bucket a layer makes visible to readers, the result of
\* the aggregator, the accumulator of the importer, the output of filterNewsOnly
\* and the buckets the hook loads from the summaries of the remote store,
\* hasViralContent is true exactly when the events list is not empty.
Orig_C22 ==
  /\ aggResult # None => FlagIsNonEmpty(aggResult)
  /\ AllFlagged(importedData)
  /\ fltOut # None => AllFlagged(fltOut)
  /\ AllFlagged(historicalData)

-----------------------------------------------------------------------------
\* The request carries the shared-secret header with the correct secret: a secret
\* is configured and the header is that string.
CarriesSecret == cron.secret # JsUndefined /\ cron.header = cron.secret

\* C23 as stated: a request without the correct secret in its header is answered
\* 401 and causes no source fetch, no upsert and no import_jobs row, under every
\* server configuration.
Orig_C23 ==
  (cron # None /\ ~CarriesSecret) =>
    /\ cron.pc # "request" => cron.status = 401
    /\ cron.fetched = <<>>
    /\ cron.upserts = <<>>
    /\ cron.jobs = 0
    /\ remoteEvents = {}

-----------------------------------------------------------------------------
\* C24: a call of an authenticated endpoint of an unconfigured source client
\* (X or NewsAPI) settles with the not-configured error, and no HTTP request
\* has been issued.
Unconfigured == call # None /\ call.client \in ClAuthenticated /\ ~call.configured

Orig_C24 ==
  (Unconfigured /\ call.pc = "settled") =>
    call.out.kind = "notConfigured" /\ call.out.requests = 0

-----------------------------------------------------------------------------
\* The responses to the requests a settled call issued.
Answered == {call.replies[k] : k \in 1..call.out.requests}

\* C25: a fetch of a source client that receives a non-2xx response fails with
\* an upstream error, and one that returns an empty list received only 2xx
\* responses.
Orig_C25 ==
  (call # None /\ call.pc = "settled" /\ call.configured) =>
    /\ (\E r \in Answered : ~Is2xx(r)) => call.out.kind = "upstream"
    /\ (call.out.kind = "returned" /\ call.out.value = <<>>) => \A r \in Answered : Is2xx(r)

-----------------------------------------------------------------------------
\* The accumulator that the posts call c fetched so far make: processPosts over
\* them, from the empty map.
OwnAccumulator(c) == processPosts(EmptyMap, runs[c].own, now)

\* C26: whatever the interleaving of two importHistoricalData calls, the
\* accumulator of a call's importer holds exactly what that call's own fetches
\* merged into it (the other call neither reset it nor wrote to it), and the
\* call resolves with exactly that.
Thm_C26 ==
  runs # None =>
    \A c \in OvCalls :
      /\ runs[c].pc # "idle" => importers[runs[c].inst] = OwnAccumulator(c)
      /\ runs[c].pc = "resolved" => runs[c].result = OwnAccumulator(c)

\* Two calls that overlapped have both resolved, with different posts.
Wit_C26 ==
  /\ runs # None
  /\ \A c \in OvCalls : runs[c].pc = "resolved" /\ runs[c].own # <<>>
  /\ runs[2].overlap
  /\ runs[1].result # runs[2].result

\* C27: isImporting is true whenever a call of importHistoricalData has not
\* resolved yet, also when two calls overlap and one finishes first.
Orig_C27 == runs # None => ((\E c \in OvCalls : OvRunning(c)) => isImporting)

-----------------------------------------------------------------------------
\* C28: in useRedditData, once the mount effect ran, historicalData holds the
\* dates and buckets of the local cache, after any sequence of imports and
\* clears, also when a write to the cache fails.
Orig_C28 ==
  (hook = "reddit" /\ hkPc = "ready") => historicalData = loadFromStorage(storage)

-----------------------------------------------------------------------------
\* The bucket getDayData returns for a date, cut down to the events the search matches.
FromGetDayData(dateStr) ==
  LET g == useRedditData_getDayData(liveData, historicalData, dateStr)
  IN IF Truthy(g)
     THEN SelectSeq(g.events,
                    LAMBDA e : MatchesSearch(e, toLowerCase(search.query), search.typeFilter))
     ELSE <<>>

\* C29: every result of searchEvents holds, for its date, the matching events
\* of the bucket getDayData returns for that date (live over historical over
\* mock), and no date comes twice.
Orig_C29 ==
  search # None =>
    \A k \in DOMAIN search.results :
      /\ search.results[k].events = FromGetDayData(search.results[k].date)
      /\ \A j \in DOMAIN search.results : j # k => search.results[j].date # search.results[k].date

-----------------------------------------------------------------------------
\* The last call was toggleTheme and what it set in motion has run.
ToggleSettled == th # None /\ th.call # None /\ th.call.op = "toggleTheme" /\ th.effect = "done"

\* C30: after a call of toggleTheme, the first one included, the theme settles
\* on the opposite of the theme shown before the call.
Orig_C30 == ToggleSettled => th.theme = Opposite(th.call.before)

====
